---- MODULE Spec2Model ----
(***************************************************************************)
(* Model of the adaptive tutoring decision engine (assessment_engine.py)   *)
(* and of the tool server that drives it (tutor_mcp_server.py).            *)
(*                                                                         *)
(* Time is counted in whole minutes: a timestamp is a natural number, and  *)
(* an absent Optional[str] timestamp is NoTime.  Floats are modelled as    *)
(* exact rationals <<numerator, denominator>>.  An Attempt keeps the two   *)
(* fields the engine reads (is_correct, error_type); question_id, the      *)
(* answers, error_step, bloom_level and timestamp are never read by it.    *)
(***************************************************************************)
EXTENDS Integers, Sequences, FiniteSets, TLC

VARIABLES
    now,              \* datetime.now(), in minutes
    topics,           \* LearnerProfile.topics: topic key -> TopicState
    topic_graphs,     \* LearnerProfile.topic_graphs: topic key -> TopicGraph
    session_count,    \* LearnerProfile.session_count
    session_history,  \* LearnerProfile.session_history
    response,         \* what the last tool call returned
    suggested_at,     \* per topic: when get_assessment last answered take_break
    prev_suggested_at,\* per topic: the time of the suggestion before that one
    args,             \* engine specifications: the inputs of the function under check
    ret,              \* engine specifications: what the function returned
    pc,               \* engine specifications: "input" before the call, "done" after
    inflight          \* per process: the call it runs between its load and its save

vars == <<now, topics, topic_graphs, session_count, session_history, response,
          suggested_at, prev_suggested_at, args, ret, pc, inflight>>

serverVars == <<now, topics, topic_graphs, session_count, session_history,
                response, suggested_at, prev_suggested_at>>

engineVars == <<args, ret, pc>>

----------------------------------------------------------------------------
(* Optional values *)

None == "None"

NoTime == -1

\* a persisted timestamp string that datetime.fromisoformat rejects
Unparsable == -2

\* the ValueError datetime.fromisoformat raises, in place of a function's result
ValueError == [raised |-> "ValueError"]

NoBreakState == [absent |-> TRUE]

NoGraph == [absent |-> TRUE]

NoResponse == [op |-> "none"]

NoReturn == [absent |-> TRUE]

\* no process is between load_learner and save_learner
NoCalls == [p \in {} |-> NoReturn]

----------------------------------------------------------------------------
(* Bounds of the model *)

EngineNow == 60

MaxErrors == 6

MaxTrendLen == 3

TickMinutes == 45

MaxTime == 45

MaxAttempts == 3

MaxSessions == 2

MaxBreaks == 1

MaxHistory == 4

MaxWindow == 4

MaxCalls == 3

MaxSessionCalls == 4

MaxLifecycleCalls == 2

MaxObservations == 3

----------------------------------------------------------------------------
(* Program constants *)

DefaultCooldownMinutes == 10

SessionLimitMinutes == 45

DecliningErrorLimit == 3

ConsecutiveErrorLimit == 5

EscalationFloor == 2

AdvanceMasteryPercent == 85

DefaultSeverity == 2

TrajectoryWindow == 5

MasteryWindow == 10

DominantWindow == 5

MinTrajectoryAttempts == 3

ConfidenceSmoothing == 5

TrendCap == 10

----------------------------------------------------------------------------
(* learner_model.py *)

Attempt(is_correct, error_type) ==
    [is_correct |-> is_correct, error_type |-> error_type]

BreakState ==
    [session_start_time |-> NoTime,
     last_break_suggestion |-> NoTime,
     last_break_taken |-> NoTime,
     breaks_taken |-> 0,
     break_cooldown_minutes |-> DefaultCooldownMinutes,
     consecutive_errors |-> 0,
     post_break_warmup |-> FALSE,
     error_severity_trend |-> <<>>]

\* first_seen is never read; last_seen is the time of the latest observation
\* or resolution
Misconception(description) ==
    [description |-> description,
     times_observed |-> 1,
     resolved |-> FALSE,
     last_seen |-> now]

\* zpd is read by none of the operations below
TopicState ==
    [mastery_level |-> <<0, 1>>,
     attempt_history |-> <<>>,
     trajectory |-> "unknown",
     misconceptions |-> <<>>,
     productive_failures |-> 0,
     break_state |-> BreakState]

SessionSummary(session_number, topic, start_time, mastery_start) ==
    [session_number |-> session_number,
     topic |-> topic,
     start_time |-> start_time,
     end_time |-> NoTime,
     attempts_count |-> 0,
     correct_count |-> 0,
     mastery_start |-> mastery_start,
     mastery_end |-> <<0, 1>>,
     breaks_taken |-> 0]

\* TopicGraph(prerequisites=d): d maps a topic key to its list of prerequisites
TopicGraph(d) == [prerequisites |-> d]

EmptyDict == [k \in {} |-> <<>>]

----------------------------------------------------------------------------
(* Rationals *)

RatLT(a, b) == a[1] * b[2] < b[1] * a[2]

RatGE(a, b) == ~RatLT(a, b)

RatEQ(a, b) == a[1] * b[2] = b[1] * a[2]

----------------------------------------------------------------------------
(* assessment_engine.py: helpers *)

\* ERROR_SEVERITY.get(error_type, 2): None is a key of the table (severity 0)
ERROR_SEVERITY(error_type) ==
    CASE error_type = None -> 0
      [] error_type = "correct" -> 0
      [] error_type = "computational" -> 1
      [] error_type = "structural" -> 2
      [] error_type = "conceptual" -> 3
      [] OTHER -> DefaultSeverity

Min(a, b) == IF a < b THEN a ELSE b

\* the Python slice s[-w:]: the last w elements for w > 0, the whole list for
\* w = 0 (s[-0:] is s[0:]), and s without its first -w elements for w < 0
LastN(s, w) ==
    IF w > 0 THEN SubSeq(s, Len(s) - Min(w, Len(s)) + 1, Len(s))
    ELSE SubSeq(s, Min(0 - w, Len(s)) + 1, Len(s))

RECURSIVE SumSeq(_)
SumSeq(s) == IF s = <<>> THEN 0 ELSE Head(s) + SumSeq(Tail(s))

\* severity of one attempt inside avg_severity
AttemptSeverity(a) ==
    IF a.is_correct THEN 0 ELSE ERROR_SEVERITY(a.error_type)

\* avg_severity(atts) as a rational; 0.0 for an empty list
avg_severity(atts) ==
    IF atts = <<>> THEN <<0, 1>>
    ELSE <<SumSeq([i \in 1..Len(atts) |-> AttemptSeverity(atts[i])]), Len(atts)>>

\* delta = first_avg - second_avg, as a rational
TrajectoryDelta(recent) ==
    LET mid == Len(recent) \div 2
        first_avg == avg_severity(SubSeq(recent, 1, mid))
        second_avg == avg_severity(SubSeq(recent, mid + 1, Len(recent)))
    IN  <<first_avg[1] * second_avg[2] - second_avg[1] * first_avg[2],
          first_avg[2] * second_avg[2]>>

\* mutant: the two "fewer than 3 attempts" guards are missing
compute_trajectory_NoMinimum(attempts, window) ==
    LET delta == TrajectoryDelta(LastN(attempts, window)) IN
    IF RatLT(<<3, 10>>, delta) THEN "improving"
    ELSE IF RatLT(delta, <<-3, 10>>) THEN "declining"
    ELSE "flat"

compute_trajectory(attempts, window) ==
    IF Len(attempts) < MinTrajectoryAttempts THEN "unknown"
    ELSE LET recent == LastN(attempts, window) IN
         IF Len(recent) < MinTrajectoryAttempts THEN "unknown"
         ELSE LET delta == TrajectoryDelta(recent) IN
              IF RatLT(<<3, 10>>, delta) THEN "improving"
              ELSE IF RatLT(delta, <<-3, 10>>) THEN "declining"
              ELSE "flat"

\* mutant: a conceptual error earns the structural credit
AccuracyQuarters_ConceptualCredit(a) ==
    IF a.is_correct THEN 4
    ELSE CASE a.error_type = "correct" -> 4
           [] a.error_type = "computational" -> 2
           [] OTHER -> 1

\* accuracy of one attempt in quarters: accuracy_scores.get(error_type, 0.25)
AccuracyQuarters(a) ==
    IF a.is_correct THEN 4
    ELSE CASE a.error_type = "correct" -> 4
           [] a.error_type = "computational" -> 2
           [] a.error_type = "structural" -> 1
           [] a.error_type = "conceptual" -> 0
           [] OTHER -> 1

\* mutant: the recency ramp runs backwards, the oldest attempt weighs most
compute_mastery_OldestHeaviest(topic_state, window) ==
    LET recent == LastN(topic_state.attempt_history, window)
        n == Len(recent)
        weighted_sum ==
            SumSeq([i \in 1..n |-> AccuracyQuarters(recent[i]) * (n + 1 - i)])
        weight_total == SumSeq([i \in 1..n |-> n + 1 - i])
    IN  IF topic_state.attempt_history = <<>> \/ n = 0 THEN <<0, 1>>
        ELSE <<weighted_sum * n, 4 * weight_total * (n + ConfidenceSmoothing)>>

\* mutant: the raw score is returned without the confidence factor
compute_mastery_NoConfidence(topic_state, window) ==
    LET recent == LastN(topic_state.attempt_history, window)
        n == Len(recent)
        weighted_sum == SumSeq([i \in 1..n |-> AccuracyQuarters(recent[i]) * i])
        weight_total == SumSeq([i \in 1..n |-> i])
    IN  IF topic_state.attempt_history = <<>> \/ n = 0 THEN <<0, 1>>
        ELSE <<weighted_sum, 4 * weight_total>>

\* raw * confidence, with raw = sum(score_i * (i+1)/n) / sum((i+1)/n) and
\* confidence = n / (n + 5); the common factor 1/n of the weights cancels
compute_mastery(topic_state, window) ==
    LET recent == LastN(topic_state.attempt_history, window)
        n == Len(recent)
        weighted_sum == SumSeq([i \in 1..n |-> AccuracyQuarters(recent[i]) * i])
        weight_total == SumSeq([i \in 1..n |-> i])
    IN  IF topic_state.attempt_history = <<>> \/ n = 0 THEN <<0, 1>>
        ELSE <<weighted_sum * n, 4 * weight_total * (n + ConfidenceSmoothing)>>

\* [a for a in s if not a.is_correct]
RECURSIVE SelectErrors(_)
SelectErrors(s) ==
    IF s = <<>> THEN <<>>
    ELSE IF Head(s).is_correct THEN SelectErrors(Tail(s))
    ELSE <<Head(s)>> \o SelectErrors(Tail(s))

\* max(counts, key=counts.get): dicts keep insertion order and max returns the
\* first maximal key, i.e. the most frequent category that appeared first
_dominant_error_type(attempts, window) ==
    LET recent_errors == SelectErrors(LastN(attempts, window))
        et(i) == IF recent_errors[i].error_type = None THEN "structural"
                 ELSE recent_errors[i].error_type
        idx == 1..Len(recent_errors)
        count(i) == Cardinality({j \in idx : et(j) = et(i)})
        best == CHOOSE i \in idx :
                    /\ \A j \in idx : count(j) <= count(i)
                    /\ \A j \in idx : (count(j) = count(i)) => i <= j
    IN  IF recent_errors = <<>> THEN None ELSE et(best)

\* mutant: every computational attempt counts, the correct ones too
detect_productive_failure_AnyComputational(attempt) ==
    attempt.error_type = "computational"

detect_productive_failure(attempt) ==
    ~attempt.is_correct /\ attempt.error_type = "computational"

----------------------------------------------------------------------------
(* assessment_engine.py: check_break_needed *)

\* mutant: the cooldown still holds at exactly break_cooldown_minutes
InCooldown_Inclusive(break_state) ==
    /\ break_state.last_break_suggestion # NoTime
    /\ now - break_state.last_break_suggestion <= break_state.break_cooldown_minutes

\* "Respect cooldown": a suggestion was stamped and is younger than the cooldown
InCooldown(break_state) ==
    /\ break_state.last_break_suggestion # NoTime
    /\ now - break_state.last_break_suggestion < break_state.break_cooldown_minutes

\* Trigger 1: declining + consecutive errors
DecliningTrigger(break_state, trajectory) ==
    trajectory = "declining" /\ break_state.consecutive_errors >= DecliningErrorLimit

\* Trigger 2: many consecutive errors
ConsecutiveTrigger(break_state) ==
    break_state.consecutive_errors >= ConsecutiveErrorLimit

\* effective_minutes: since the last break taken if there is one, else since
\* the session start
effective_minutes(break_state) ==
    IF break_state.last_break_taken # NoTime
    THEN now - break_state.last_break_taken
    ELSE now - break_state.session_start_time

\* Trigger 3: long session
SessionTrigger(break_state) ==
    /\ break_state.session_start_time # NoTime
    /\ effective_minutes(break_state) >= SessionLimitMinutes

\* Trigger 4: error severity escalating
EscalationTrigger(break_state) ==
    LET trend == break_state.error_severity_trend IN
    /\ Len(trend) >= 3
    /\ LET last_three == SubSeq(trend, Len(trend) - 2, Len(trend)) IN
       /\ last_three[1] < last_three[2]
       /\ last_three[2] < last_three[3]
       /\ last_three[3] >= EscalationFloor

\* the reason strings, as the trigger's name followed by the number it quotes;
\* a timestamp is parsed where the code reads it: last_break_suggestion first,
\* session_start_time and last_break_taken only when trigger 3 is reached
check_break_needed(break_state, trajectory) ==
    IF break_state.last_break_suggestion = Unparsable
    THEN ValueError
    ELSE IF InCooldown(break_state)
    THEN [needed |-> FALSE, reason |-> <<>>, urgency |-> "low"]
    ELSE IF DecliningTrigger(break_state, trajectory)
    THEN [needed |-> TRUE,
          reason |-> <<"declining_consecutive_errors", break_state.consecutive_errors>>,
          urgency |-> "high"]
    ELSE IF ConsecutiveTrigger(break_state)
    THEN [needed |-> TRUE,
          reason |-> <<"consecutive_errors", break_state.consecutive_errors>>,
          urgency |-> "high"]
    ELSE IF break_state.session_start_time = Unparsable
    THEN ValueError
    ELSE IF break_state.session_start_time # NoTime /\ break_state.last_break_taken = Unparsable
    THEN ValueError
    ELSE IF SessionTrigger(break_state)
    THEN [needed |-> TRUE,
          reason |-> <<"working_minutes", effective_minutes(break_state)>>,
          urgency |-> "medium"]
    ELSE IF EscalationTrigger(break_state)
    THEN [needed |-> TRUE,
          reason |-> <<"errors_more_fundamental">>,
          urgency |-> "medium"]
    ELSE [needed |-> FALSE, reason |-> <<>>, urgency |-> "low"]

----------------------------------------------------------------------------
(* assessment_engine.py: compute_recommendation *)

\* "if break_state: ... if break_check["needed"]"
\* mutant: a pending warm-up is served before the break check
BreakApplies_AfterWarmup(break_state, trajectory) ==
    /\ break_state # NoBreakState
    /\ ~break_state.post_break_warmup
    /\ check_break_needed(break_state, trajectory).needed

BreakApplies(break_state, trajectory) ==
    /\ break_state # NoBreakState
    /\ check_break_needed(break_state, trajectory).needed

\* the record rule 1 returns for a positive break check
BreakRecord(break_check) ==
    [action |-> "take_break",
     detail |-> break_check.reason,
     urgency |-> break_check.urgency,
     post_break_warmup |-> TRUE]

\* mutant: the warm-up ends as soon as the learner errs again
WarmupApplies_NoErrors(break_state) ==
    /\ break_state # NoBreakState
    /\ break_state.post_break_warmup
    /\ break_state.consecutive_errors = 0

\* "if break_state and break_state.post_break_warmup"
WarmupApplies(break_state) ==
    break_state # NoBreakState /\ break_state.post_break_warmup

WarmupRecord ==
    [action |-> "warmup", detail |-> <<"welcome_back_gentler_question">>]

\* mutant: mastery must exceed 0.85
AdvanceApplies_Strict(dominant_error, mastery) ==
    dominant_error = None /\ RatLT(<<AdvanceMasteryPercent, 100>>, mastery)

\* "dominant_error is None and mastery >= 0.85"
AdvanceApplies(dominant_error, mastery) ==
    dominant_error = None /\ RatGE(mastery, <<AdvanceMasteryPercent, 100>>)

\* "topic_graph and topic in topic_graph.prerequisites" and "if prereqs"
HasPrereqs(topic_graph, topic) ==
    /\ topic_graph # NoGraph
    /\ topic \in DOMAIN topic_graph.prerequisites
    /\ topic_graph.prerequisites[topic] # <<>>

\* mutant: the last prerequisite instead of the first
GoBackRecord_Last(detail, topic_graph, topic) ==
    [action |-> "go_back",
     detail |-> detail,
     prerequisite_topic |->
        topic_graph.prerequisites[topic][Len(topic_graph.prerequisites[topic])]]

GoBackRecord(detail, topic_graph, topic) ==
    [action |-> "go_back",
     detail |-> detail,
     prerequisite_topic |-> topic_graph.prerequisites[topic][1]]

\* mutant: the fallback break omits post_break_warmup
DecliningRule_NoWarmup(topic_graph, topic) ==
    IF HasPrereqs(topic_graph, topic)
    THEN GoBackRecord(<<"declining_revisit_prerequisite">>, topic_graph, topic)
    ELSE [action |-> "take_break",
          detail |-> <<"declining_no_prerequisite">>,
          urgency |-> "medium"]

\* the branch taken for a declining trajectory
DecliningRule(topic_graph, topic) ==
    IF HasPrereqs(topic_graph, topic)
    THEN GoBackRecord(<<"declining_revisit_prerequisite">>, topic_graph, topic)
    ELSE [action |-> "take_break",
          detail |-> <<"declining_no_prerequisite">>,
          urgency |-> "medium",
          post_break_warmup |-> TRUE]

\* mutant: the improving case is not told apart
ConceptualRule_NoImproving(trajectory, topic_graph, topic) ==
    IF HasPrereqs(topic_graph, topic)
    THEN GoBackRecord(<<"persistent_conceptual_errors">>, topic_graph, topic)
    ELSE [action |-> "targeted_instruction",
          detail |-> <<"conceptual_no_prerequisite">>]

\* the branch taken for dominant_error == "conceptual"
ConceptualRule(trajectory, topic_graph, topic) ==
    IF trajectory = "improving"
    THEN [action |-> "targeted_instruction",
          detail |-> <<"conceptual_but_improving">>]
    ELSE IF HasPrereqs(topic_graph, topic)
    THEN GoBackRecord(<<"persistent_conceptual_errors">>, topic_graph, topic)
    ELSE [action |-> "targeted_instruction",
          detail |-> <<"conceptual_no_prerequisite">>]

\* the branch taken for dominant_error == "structural"
StructuralRule(trajectory) ==
    IF trajectory = "improving"
    THEN [action |-> "keep_grinding", detail |-> <<"structural_but_improving">>]
    ELSE [action |-> "targeted_instruction", detail |-> <<"structural_not_improving">>]

\* mutant: the tip is given even when improving
ComputationalRule_AlwaysTip(trajectory) ==
    [action |-> "brief_tip", detail |-> <<"computation_errors_quick_tip">>]

\* the branch taken for dominant_error == "computational"
ComputationalRule(trajectory) ==
    IF trajectory = "improving"
    THEN [action |-> "keep_grinding", detail |-> <<"computational_but_improving">>]
    ELSE [action |-> "brief_tip", detail |-> <<"computation_errors_quick_tip">>]

\* an exception of the break check leaves compute_recommendation uncaught
compute_recommendation(trajectory, dominant_error, mastery, topic_graph, topic, break_state) ==
    IF break_state # NoBreakState /\ check_break_needed(break_state, trajectory) = ValueError
    THEN ValueError
    ELSE IF BreakApplies(break_state, trajectory)
    THEN BreakRecord(check_break_needed(break_state, trajectory))
    ELSE IF WarmupApplies(break_state)
    THEN WarmupRecord
    ELSE IF AdvanceApplies(dominant_error, mastery)
    THEN [action |-> "keep_grinding", detail |-> <<"mastery_strong_increase_difficulty">>]
    ELSE IF trajectory = "declining"
    THEN DecliningRule(topic_graph, topic)
    ELSE IF dominant_error = "conceptual"
    THEN ConceptualRule(trajectory, topic_graph, topic)
    ELSE IF dominant_error = "structural"
    THEN StructuralRule(trajectory)
    ELSE IF dominant_error = "computational"
    THEN ComputationalRule(trajectory)
    ELSE [action |-> "keep_grinding", detail |-> <<"continue_leveled_questions">>]

----------------------------------------------------------------------------
(* tutor_mcp_server.py: the tool server.  Every tool loads the learner's      *)
(* profile, changes it and saves it; topic arguments are normalized keys.     *)

Topics == {"math"}

\* (is_correct, error_type) of the attempts the tutor reports
AttemptInputs ==
    {<<TRUE, None>>, <<FALSE, "computational">>, <<FALSE, "conceptual">>}

\* d[k] = v on a dict d
Put(d, k, v) == [x \in DOMAIN d \cup {k} |-> IF x = k THEN v ELSE d[x]]

\* del d[k]
Without(d, k) == [x \in DOMAIN d \ {k} |-> d[x]]

\* "if topic not in profile.topics: profile.topics[topic] = TopicState()"
EnsureTopic(t) == IF t \in DOMAIN topics THEN topics ELSE Put(topics, t, TopicState)

RECURSIVE SumOver(_, _)
SumOver(f, S) ==
    IF S = {} THEN 0
    ELSE LET x == CHOOSE y \in S : TRUE IN f[x] + SumOver(f, S \ {x})

AttemptsRecorded ==
    SumOver([t \in DOMAIN topics |-> Len(topics[t].attempt_history)], DOMAIN topics)

BreaksRecorded ==
    SumOver([t \in DOMAIN topics |-> topics[t].break_state.breaks_taken], DOMAIN topics)

\* mutant: a new session also forgets the break taken in the previous one
SessionBreakState_ForgetBreak(bs) ==
    [bs EXCEPT !.session_start_time = now,
               !.last_break_taken = NoTime,
               !.consecutive_errors = 0,
               !.post_break_warmup = FALSE,
               !.error_severity_trend = <<>>]

\* the break state after "Initialize break state for this session"
SessionBreakState(bs) ==
    [bs EXCEPT !.session_start_time = now,
               !.consecutive_errors = 0,
               !.post_break_warmup = FALSE,
               !.error_severity_trend = <<>>]

start_session(t) ==
    /\ LET ts == EnsureTopic(t)[t]
           started == [ts EXCEPT !.break_state = SessionBreakState(ts.break_state)]
       IN  /\ topics' = Put(topics, t, started)
           /\ session_count' = session_count + 1
           /\ session_history' =
                Append(session_history,
                       SessionSummary(session_count + 1, t, now, ts.mastery_level))
           /\ response' = [op |-> "start_session",
                           topic |-> t,
                           status |-> "session_started",
                           session_number |-> session_count + 1,
                           mastery_level |-> ts.mastery_level,
                           trajectory |-> ts.trajectory,
                           total_attempts |-> Len(ts.attempt_history),
                           needs_topic_graph |-> t \notin DOMAIN topic_graphs]
    /\ UNCHANGED <<now, topic_graphs, suggested_at, prev_suggested_at, engineVars, inflight>>

\* mutant: the warm-up ends with the first attempt after the break, right or wrong
AttemptBreakState_WarmupOneShot(bs, is_correct, error_type) ==
    IF is_correct
    THEN [bs EXCEPT !.consecutive_errors = 0, !.post_break_warmup = FALSE]
    ELSE [bs EXCEPT !.consecutive_errors = @ + 1,
                    !.post_break_warmup = FALSE,
                    !.error_severity_trend =
                        LastN(Append(@, ERROR_SEVERITY(error_type)), TrendCap)]

\* mutant: the trend is cut only once it holds more than TrendCap + 1 scores
AttemptBreakState_LateCut(bs, is_correct, error_type) ==
    IF is_correct
    THEN [bs EXCEPT !.consecutive_errors = 0, !.post_break_warmup = FALSE]
    ELSE [bs EXCEPT !.consecutive_errors = @ + 1,
                    !.error_severity_trend =
                        LastN(Append(@, ERROR_SEVERITY(error_type)), TrendCap + 1)]

\* "Update break state" of record_attempt
AttemptBreakState(bs, is_correct, error_type) ==
    IF is_correct
    THEN [bs EXCEPT !.consecutive_errors = 0, !.post_break_warmup = FALSE]
    ELSE [bs EXCEPT !.consecutive_errors = @ + 1,
                    !.error_severity_trend =
                        LastN(Append(@, ERROR_SEVERITY(error_type)), TrendCap)]

\* mutant: mastery is recomputed before the attempt is appended
AttemptTopicState_StaleMastery(ts, is_correct, error_type) ==
    LET attempt == Attempt(is_correct, error_type)
        appended ==
            [ts EXCEPT !.attempt_history = Append(@, attempt),
                       !.break_state = AttemptBreakState(@, is_correct, error_type),
                       !.productive_failures =
                           IF detect_productive_failure(attempt) THEN @ + 1 ELSE @]
        with_trajectory ==
            [appended EXCEPT !.trajectory =
                compute_trajectory(appended.attempt_history, TrajectoryWindow)]
    IN  [with_trajectory EXCEPT !.mastery_level = compute_mastery(ts, MasteryWindow)]

\* mutant: the new attempt is put in front of the history
AttemptTopicState_Prepend(ts, is_correct, error_type) ==
    LET attempt == Attempt(is_correct, error_type)
        appended ==
            [ts EXCEPT !.attempt_history = <<attempt>> \o @,
                       !.break_state = AttemptBreakState(@, is_correct, error_type),
                       !.productive_failures =
                           IF detect_productive_failure(attempt) THEN @ + 1 ELSE @]
        with_trajectory ==
            [appended EXCEPT !.trajectory =
                compute_trajectory(appended.attempt_history, TrajectoryWindow)]
    IN  [with_trajectory EXCEPT !.mastery_level =
            compute_mastery(with_trajectory, MasteryWindow)]

\* the TopicState after record_attempt appended the attempt and recomputed
AttemptTopicState(ts, is_correct, error_type) ==
    LET attempt == Attempt(is_correct, error_type)
        appended ==
            [ts EXCEPT !.attempt_history = Append(@, attempt),
                       !.break_state = AttemptBreakState(@, is_correct, error_type),
                       !.productive_failures =
                           IF detect_productive_failure(attempt) THEN @ + 1 ELSE @]
        with_trajectory ==
            [appended EXCEPT !.trajectory =
                compute_trajectory(appended.attempt_history, TrajectoryWindow)]
    IN  [with_trajectory EXCEPT !.mastery_level =
            compute_mastery(with_trajectory, MasteryWindow)]

\* "Update session summary" of record_attempt: the last summary of the profile
AttemptSummary(history, is_correct, mastery_level) ==
    IF history = <<>> THEN history
    ELSE [history EXCEPT ![Len(history)] =
            [@ EXCEPT !.attempts_count = @ + 1,
                      !.correct_count = IF is_correct THEN @ + 1 ELSE @,
                      !.mastery_end = mastery_level]]

record_attempt(t, is_correct, error_type) ==
    /\ LET ts == AttemptTopicState(EnsureTopic(t)[t], is_correct, error_type) IN
       /\ topics' = Put(topics, t, ts)
       /\ session_history' = AttemptSummary(session_history, is_correct, ts.mastery_level)
       /\ response' = [op |-> "record_attempt",
                       topic |-> t,
                       recorded |-> TRUE,
                       mastery_level |-> ts.mastery_level,
                       trajectory |-> ts.trajectory,
                       productive_failure |->
                           detect_productive_failure(Attempt(is_correct, error_type)),
                       consecutive_errors |-> ts.break_state.consecutive_errors,
                       total_attempts |-> Len(ts.attempt_history)]
    /\ UNCHANGED <<now, topic_graphs, session_count, suggested_at, prev_suggested_at,
                   engineVars, inflight>>

\* profile.topic_graphs.get(topic)
GraphOf(t) == IF t \in DOMAIN topic_graphs THEN topic_graphs[t] ELSE NoGraph

\* the dict get_assessment returns for a known topic
Assessment(t) ==
    LET ts == topics[t]
        dominant_error == _dominant_error_type(ts.attempt_history, DominantWindow)
    IN  [op |-> "get_assessment",
         topic |-> t,
         mastery_level |-> ts.mastery_level,
         trajectory |-> ts.trajectory,
         dominant_error_type |-> dominant_error,
         recommendation |->
             compute_recommendation(ts.trajectory, dominant_error, ts.mastery_level,
                                    GraphOf(t), t, ts.break_state),
         productive_failures |-> ts.productive_failures,
         consecutive_errors |-> ts.break_state.consecutive_errors]

NoData(op, t) == [op |-> op, topic |-> t, error |-> "no_data_for_topic"]

\* mutant: a take_break answer is stamped on the topic's break state and saved
get_assessment_Stamping(t) ==
    /\ IF t \notin DOMAIN topics
       THEN /\ response' = NoData("get_assessment", t)
            /\ UNCHANGED <<topics, suggested_at, prev_suggested_at>>
       ELSE /\ response' = Assessment(t)
            /\ IF Assessment(t).recommendation.action = "take_break"
               THEN /\ topics' = [topics EXCEPT ![t].break_state.last_break_suggestion = now]
                    /\ suggested_at' = Put(suggested_at, t, now)
                    /\ prev_suggested_at' =
                         IF t \in DOMAIN suggested_at
                         THEN Put(prev_suggested_at, t, suggested_at[t])
                         ELSE prev_suggested_at
               ELSE UNCHANGED <<topics, suggested_at, prev_suggested_at>>
    /\ UNCHANGED <<now, topic_graphs, session_count, session_history, engineVars, inflight>>

\* the profile is loaded and never saved; suggested_at and prev_suggested_at
\* record when the last two take_break answers for the topic were given
get_assessment(t) ==
    /\ IF t \notin DOMAIN topics
       THEN /\ response' = NoData("get_assessment", t)
            /\ UNCHANGED <<suggested_at, prev_suggested_at>>
       ELSE /\ response' = Assessment(t)
            /\ IF Assessment(t).recommendation.action = "take_break"
               THEN /\ suggested_at' = Put(suggested_at, t, now)
                    /\ prev_suggested_at' =
                         IF t \in DOMAIN suggested_at
                         THEN Put(prev_suggested_at, t, suggested_at[t])
                         ELSE prev_suggested_at
               ELSE UNCHANGED <<suggested_at, prev_suggested_at>>
    /\ UNCHANGED <<now, topics, topic_graphs, session_count, session_history, engineVars, inflight>>

\* mutant: a break leaves the consecutive-error counter alone
TakenBreakState_KeepErrors(bs) ==
    [bs EXCEPT !.last_break_taken = now,
               !.breaks_taken = @ + 1,
               !.post_break_warmup = TRUE,
               !.error_severity_trend = <<>>]

\* the break state after record_break
TakenBreakState(bs) ==
    [bs EXCEPT !.last_break_taken = now,
               !.breaks_taken = @ + 1,
               !.consecutive_errors = 0,
               !.post_break_warmup = TRUE,
               !.error_severity_trend = <<>>]

\* "Update session summary" of record_break: the last summary of the profile
BreakSummary(history) ==
    IF history = <<>> THEN history
    ELSE [history EXCEPT ![Len(history)].breaks_taken = @ + 1]

record_break(t) ==
    /\ IF t \notin DOMAIN topics
       THEN /\ response' = NoData("record_break", t)
            /\ UNCHANGED <<topics, session_history>>
       ELSE /\ topics' = [topics EXCEPT ![t].break_state = TakenBreakState(@)]
            /\ session_history' = BreakSummary(session_history)
            /\ response' = [op |-> "record_break",
                            topic |-> t,
                            recorded |-> TRUE,
                            breaks_taken |-> topics[t].break_state.breaks_taken + 1,
                            post_break_warmup |-> TRUE]
    /\ UNCHANGED <<now, topic_graphs, session_count, suggested_at, prev_suggested_at,
                   engineVars, inflight>>

\* max(0.0, min(1.0, mastery_level))
Clamped(mastery_level) ==
    LET capped == IF RatLT(mastery_level, <<1, 1>>) THEN mastery_level ELSE <<1, 1>>
    IN  IF RatLT(<<0, 1>>, capped) THEN capped ELSE <<0, 1>>

update_topic_mastery(t, mastery_level) ==
    /\ topics' = Put(topics, t, [EnsureTopic(t)[t] EXCEPT
                                    !.mastery_level = Clamped(mastery_level)])
    /\ response' = [op |-> "update_topic_mastery",
                    updated |-> TRUE,
                    topic |-> t,
                    mastery_level |-> Clamped(mastery_level)]
    /\ UNCHANGED <<now, topic_graphs, session_count, session_history, suggested_at,
                   prev_suggested_at, engineVars, inflight>>

\* the loop of add_topics over the list l: acc carries profile.topics and the
\* three lists of the answer
RECURSIVE AddAll(_, _)
AddAll(acc, l) ==
    IF l = <<>> THEN acc
    ELSE LET t == Head(l) IN
         IF t \in DOMAIN acc.topics
         THEN AddAll([acc EXCEPT !.already_existed = Append(@, t)], Tail(l))
         ELSE AddAll([acc EXCEPT !.topics = Put(@, t, TopicState),
                                 !.added = Append(@, t),
                                 !.needs_topic_graph =
                                     IF t \in DOMAIN topic_graphs THEN @
                                     ELSE Append(@, t)],
                     Tail(l))

add_topics(l) ==
    /\ LET done == AddAll([topics |-> topics, added |-> <<>>,
                           already_existed |-> <<>>, needs_topic_graph |-> <<>>], l)
       IN  /\ topics' = done.topics
           /\ response' = [op |-> "add_topics",
                           added |-> done.added,
                           already_existed |-> done.already_existed,
                           needs_topic_graph |-> done.needs_topic_graph]
    /\ UNCHANGED <<now, topic_graphs, session_count, session_history, suggested_at,
                   prev_suggested_at, engineVars, inflight>>

\* the summary end_session returns: the last session of the profile, closed now
SessionReport(current) ==
    [session_number |-> current.session_number,
     topic |-> current.topic,
     duration_minutes |-> now - current.start_time,
     attempts |-> current.attempts_count,
     correct |-> current.correct_count,
     accuracy |-> IF current.attempts_count > 0
                  THEN <<current.correct_count, current.attempts_count>>
                  ELSE <<0, 1>>,
     mastery_start |-> current.mastery_start,
     mastery_end |-> current.mastery_end,
     mastery_change |->
         <<current.mastery_end[1] * current.mastery_start[2]
             - current.mastery_start[1] * current.mastery_end[2],
           current.mastery_end[2] * current.mastery_start[2]>>,
     breaks_taken |-> current.breaks_taken]

end_session ==
    /\ IF session_history = <<>>
       THEN /\ response' = [op |-> "end_session", status |-> "session_ended",
                            summary |-> EmptyDict]
            /\ UNCHANGED session_history
       ELSE /\ session_history' =
                 [session_history EXCEPT ![Len(session_history)].end_time = now]
            /\ response' = [op |-> "end_session", status |-> "session_ended",
                            summary |-> SessionReport(session_history[Len(session_history)])]
    /\ UNCHANGED <<now, topics, topic_graphs, session_count, suggested_at,
                   prev_suggested_at, engineVars, inflight>>

\* learner_model.rebuild_unified_graph, called by store_topic_graph and
\* delete_topic: the per-topic graphs of the profile stay as they are
rebuild_unified_graph(graphs) == graphs

store_topic_graph(t, prerequisites) ==
    /\ topic_graphs' = rebuild_unified_graph(Put(topic_graphs, t, TopicGraph(prerequisites)))
    /\ response' = [op |-> "store_topic_graph",
                    stored |-> TRUE,
                    topic |-> t,
                    prerequisite_count |-> Cardinality(DOMAIN prerequisites)]
    /\ UNCHANGED <<now, topics, session_count, session_history, suggested_at,
                   prev_suggested_at, engineVars, inflight>>

\* mutant: the topic's graph entry is left behind
delete_topic_KeepGraph(t) ==
    /\ IF t \notin DOMAIN topics
       THEN /\ response' = [op |-> "delete_topic", deleted |-> FALSE, topic |-> t,
                            error |-> "topic_not_found",
                            available_topics |-> DOMAIN topics]
            /\ UNCHANGED <<topics, topic_graphs>>
       ELSE /\ topics' = Without(topics, t)
            /\ topic_graphs' = rebuild_unified_graph(topic_graphs)
            /\ response' = [op |-> "delete_topic", deleted |-> TRUE, topic |-> t,
                            remaining_topics |-> DOMAIN topics']
    /\ UNCHANGED <<now, session_count, session_history, suggested_at,
                   prev_suggested_at, engineVars, inflight>>

\* the tool server's delete_topic
delete_topic(t) ==
    /\ IF t \notin DOMAIN topics
       THEN /\ response' = [op |-> "delete_topic", deleted |-> FALSE, topic |-> t,
                            error |-> "topic_not_found",
                            available_topics |-> DOMAIN topics]
            /\ UNCHANGED <<topics, topic_graphs>>
       ELSE /\ topics' = Without(topics, t)
            /\ topic_graphs' = rebuild_unified_graph(Without(topic_graphs, t))
            /\ response' = [op |-> "delete_topic", deleted |-> TRUE, topic |-> t,
                            remaining_topics |-> DOMAIN topics']
    /\ UNCHANGED <<now, session_count, session_history, suggested_at,
                   prev_suggested_at, engineVars, inflight>>

\* the web app's DELETE /api/profile/{learner_id}/topics/{topic}: the answer is
\* 404 and nothing is written when the topic (or the learner's file) is unknown
app_delete_topic(t) ==
    /\ IF t \notin DOMAIN topics
       THEN /\ response' = [op |-> "DELETE", deleted |-> FALSE, topic |-> t,
                            error |-> "not_found"]
            /\ UNCHANGED <<topics, topic_graphs>>
       ELSE /\ topics' = Without(topics, t)
            /\ topic_graphs' = Without(topic_graphs, t)
            /\ response' = [op |-> "DELETE", deleted |-> TRUE, topic |-> t]
    /\ UNCHANGED <<now, session_count, session_history, suggested_at,
                   prev_suggested_at, engineVars, inflight>>

\* the descriptions the tutor passes to the misconception tools
Descriptions == {"sign error", "Sign Error", "units"}

\* str.lower() on the descriptions
Lower(description) ==
    IF description = "Sign Error" THEN "sign error" ELSE description

\* the index of the first misconception of ms that matches the description
\* case-insensitively, 0 if there is none
FirstMatch(ms, description) ==
    IF \E i \in 1..Len(ms) : Lower(ms[i].description) = Lower(description)
    THEN CHOOSE i \in 1..Len(ms) :
            /\ Lower(ms[i].description) = Lower(description)
            /\ \A j \in 1..(i - 1) : Lower(ms[j].description) # Lower(description)
    ELSE 0

\* mutant: a resolved misconception that is observed again stays resolved
Reobserved_StaysResolved(m) ==
    [m EXCEPT !.times_observed = @ + 1, !.last_seen = now]

\* the matching misconception after record_misconception saw it again
Reobserved(m) ==
    [m EXCEPT !.times_observed = @ + 1, !.last_seen = now, !.resolved = FALSE]

record_misconception(t, description) ==
    /\ LET ts == EnsureTopic(t)[t]
           i == FirstMatch(ts.misconceptions, description)
       IN  IF i # 0
           THEN /\ topics' = Put(topics, t,
                                 [ts EXCEPT !.misconceptions[i] = Reobserved(@)])
                /\ response' = [op |-> "record_misconception",
                                topic |-> t,
                                recorded |-> TRUE,
                                new |-> FALSE,
                                description |-> ts.misconceptions[i].description,
                                times_observed |-> ts.misconceptions[i].times_observed + 1]
           ELSE /\ topics' = Put(topics, t,
                                 [ts EXCEPT !.misconceptions =
                                                Append(@, Misconception(description))])
                /\ response' = [op |-> "record_misconception",
                                topic |-> t,
                                recorded |-> TRUE,
                                new |-> TRUE,
                                description |-> description,
                                times_observed |-> 1]
    /\ UNCHANGED <<now, topic_graphs, session_count, session_history, suggested_at,
                   prev_suggested_at, engineVars, inflight>>

resolve_misconception(t, description) ==
    /\ IF t \notin DOMAIN topics
       THEN /\ response' = [op |-> "resolve_misconception", topic |-> t,
                            resolved |-> FALSE, error |-> "no_data_for_topic"]
            /\ UNCHANGED topics
       ELSE LET i == FirstMatch(topics[t].misconceptions, description) IN
            IF i # 0
            THEN /\ topics' = [topics EXCEPT ![t].misconceptions[i] =
                                   [@ EXCEPT !.resolved = TRUE, !.last_seen = now]]
                 /\ response' = [op |-> "resolve_misconception",
                                 topic |-> t,
                                 resolved |-> TRUE,
                                 description |-> topics[t].misconceptions[i].description,
                                 times_observed |->
                                     topics[t].misconceptions[i].times_observed]
            ELSE /\ response' = [op |-> "resolve_misconception", topic |-> t,
                                 resolved |-> FALSE, error |-> "misconception_not_found"]
                 /\ UNCHANGED topics
    /\ UNCHANGED <<now, topic_graphs, session_count, session_history, suggested_at,
                   prev_suggested_at, engineVars, inflight>>

\* time passes between two tool calls
Tick ==
    /\ now' = now + TickMinutes
    /\ UNCHANGED <<topics, topic_graphs, session_count, session_history, response,
                   suggested_at, prev_suggested_at, engineVars, inflight>>

\* a new learner: load_learner finds no document
ServerIdle ==
    /\ topics = EmptyDict
    /\ topic_graphs = EmptyDict
    /\ session_count = 0
    /\ session_history = <<>>
    /\ response = NoResponse
    /\ suggested_at = EmptyDict
    /\ prev_suggested_at = EmptyDict
    /\ inflight = NoCalls

Init ==
    /\ now = 0
    /\ ServerIdle
    /\ args = NoReturn
    /\ ret = NoReturn
    /\ pc = "server"

\* the tool calls of a bounded run: the bounds cap the counters, the calls
\* themselves are the server's
Next ==
    \/ \E t \in Topics : session_count < MaxSessions /\ start_session(t)
    \/ \E t \in Topics, a \in AttemptInputs :
            AttemptsRecorded < MaxAttempts /\ record_attempt(t, a[1], a[2])
    \/ \E t \in Topics : get_assessment(t)
    \/ \E t \in Topics : BreaksRecorded < MaxBreaks /\ record_break(t)
    \/ now < MaxTime /\ Tick

Spec == Init /\ [][Next]_vars

----------------------------------------------------------------------------
(* Inputs of the engine specifications *)

Trajectories == {"improving", "flat", "declining", "unknown"}

\* the categories plus one unrecognized value
DominantErrors == {None, "computational", "structural", "conceptual", "careless"}

\* all sequences over S of length at most n
SeqsUpTo(S, n) == UNION {[1..k -> S] : k \in 0..n}

SuggestionTimes ==
    {NoTime, EngineNow - DefaultCooldownMinutes, EngineNow - DefaultCooldownMinutes + 1}

SessionTimes ==
    {NoTime, EngineNow - SessionLimitMinutes, EngineNow - SessionLimitMinutes + 1}

CooldownInputs == {DefaultCooldownMinutes, 2 * DefaultCooldownMinutes}

\* the break states handed to check_break_needed
BreakStateInputs ==
    {[BreakState EXCEPT !.last_break_suggestion = lbs,
                        !.break_cooldown_minutes = cd,
                        !.session_start_time = sst,
                        !.last_break_taken = lbt,
                        !.consecutive_errors = ce,
                        !.error_severity_trend = trend] :
        lbs \in SuggestionTimes, cd \in CooldownInputs,
        sst \in SessionTimes, lbt \in SessionTimes,
        ce \in 0..MaxErrors, trend \in SeqsUpTo(0..3, MaxTrendLen)}

\* the break states handed to compute_recommendation
RecBreakStateInputs ==
    {NoBreakState} \cup
    {[BreakState EXCEPT !.last_break_suggestion = lbs,
                        !.session_start_time = sst,
                        !.consecutive_errors = ce,
                        !.post_break_warmup = warm,
                        !.error_severity_trend = trend] :
        lbs \in {NoTime, EngineNow - DefaultCooldownMinutes + 1},
        sst \in {NoTime, EngineNow - SessionLimitMinutes},
        ce \in {0, DecliningErrorLimit, ConsecutiveErrorLimit},
        warm \in BOOLEAN,
        trend \in {<<>>, <<1, 2, 3>>}}

MasteryInputs == {<<2, 3>>, <<84, 100>>, <<85, 100>>, <<1, 1>>}

GraphInputs ==
    {NoGraph,
     TopicGraph(EmptyDict),
     TopicGraph([k \in {"algebra"} |-> <<"arithmetic">>]),
     TopicGraph([k \in {"math"} |-> <<>>]),
     TopicGraph([k \in {"math"} |-> <<"arithmetic", "counting">>])}

----------------------------------------------------------------------------
(* check_break_needed on every input *)

InitBreak ==
    /\ now = EngineNow
    /\ ServerIdle
    /\ pc = "input"
    /\ ret = NoReturn
    /\ args \in [break_state : BreakStateInputs, trajectory : Trajectories]

CallCheckBreak ==
    /\ pc = "input"
    /\ ret' = check_break_needed(args.break_state, args.trajectory)
    /\ pc' = "done"
    /\ UNCHANGED <<args, serverVars, inflight>>

NextBreak == CallCheckBreak

SpecBreak == InitBreak /\ [][NextBreak]_vars

----------------------------------------------------------------------------
(* compute_recommendation on every input *)

InitRec ==
    /\ now = EngineNow
    /\ ServerIdle
    /\ pc = "input"
    /\ ret = NoReturn
    /\ args \in [trajectory : Trajectories,
                 dominant_error : DominantErrors,
                 mastery : MasteryInputs,
                 topic_graph : GraphInputs,
                 topic : {"math"},
                 break_state : RecBreakStateInputs]

CallRecommendation ==
    /\ pc = "input"
    /\ ret' = compute_recommendation(args.trajectory, args.dominant_error,
                                     args.mastery, args.topic_graph, args.topic,
                                     args.break_state)
    /\ pc' = "done"
    /\ UNCHANGED <<args, serverVars, inflight>>

NextRec == CallRecommendation

SpecRec == InitRec /\ [][NextRec]_vars

----------------------------------------------------------------------------
(* Attempt histories and windows handed to the scoring functions *)

\* the attempts the engine tells apart: a correct one, an incorrect one of each
\* category, an incorrect one without a category (error_type=None) and an
\* incorrect one with a category outside the taxonomy
AttemptKinds ==
    {Attempt(TRUE, None),
     Attempt(FALSE, "computational"),
     Attempt(FALSE, "structural"),
     Attempt(FALSE, "conceptual"),
     Attempt(FALSE, None),
     Attempt(FALSE, "careless")}

Histories == SeqsUpTo(AttemptKinds, MaxHistory)

\* the window argument: a count of attempts
Windows == 0..MaxWindow

----------------------------------------------------------------------------
(* compute_trajectory on every input *)

InitTrajectory ==
    /\ now = EngineNow
    /\ ServerIdle
    /\ pc = "input"
    /\ ret = NoReturn
    /\ args \in [attempts : Histories, window : Windows]

CallTrajectory ==
    /\ pc = "input"
    /\ ret' = compute_trajectory(args.attempts, args.window)
    /\ pc' = "done"
    /\ UNCHANGED <<args, serverVars, inflight>>

NextTrajectory == CallTrajectory

SpecTrajectory == InitTrajectory /\ [][NextTrajectory]_vars

----------------------------------------------------------------------------
(* compute_mastery on every input *)

InitMastery ==
    /\ now = EngineNow
    /\ ServerIdle
    /\ pc = "input"
    /\ ret = NoReturn
    /\ args \in [topic_state : {[TopicState EXCEPT !.attempt_history = h] :
                                    h \in Histories},
                 window : Windows]

CallMastery ==
    /\ pc = "input"
    /\ ret' = compute_mastery(args.topic_state, args.window)
    /\ pc' = "done"
    /\ UNCHANGED <<args, serverVars, inflight>>

NextMastery == CallMastery

SpecMastery == InitMastery /\ [][NextMastery]_vars

----------------------------------------------------------------------------
(* _dominant_error_type on every input *)

InitDominant ==
    /\ now = EngineNow
    /\ ServerIdle
    /\ pc = "input"
    /\ ret = NoReturn
    /\ args \in [attempts : Histories, window : Windows]

CallDominant ==
    /\ pc = "input"
    /\ ret' = _dominant_error_type(args.attempts, args.window)
    /\ pc' = "done"
    /\ UNCHANGED <<args, serverVars, inflight>>

NextDominant == CallDominant

SpecDominant == InitDominant /\ [][NextDominant]_vars

----------------------------------------------------------------------------
(* start_session and record_attempt with every kind of attempt *)

NextAttempts ==
    \/ \E t \in Topics : session_count < MaxSessions /\ start_session(t)
    \/ \E t \in Topics, a \in AttemptKinds :
            AttemptsRecorded < MaxAttempts /\ record_attempt(t, a.is_correct, a.error_type)

SpecAttempts == Init /\ [][NextAttempts]_vars

----------------------------------------------------------------------------
(* record_attempt with every combination of is_correct and error_type *)

\* is_correct and error_type are independent arguments of record_attempt: a
\* correct attempt may carry a category too
AllAttemptKinds ==
    {Attempt(c, e) : c \in BOOLEAN,
                     e \in {None, "computational", "structural", "conceptual", "careless"}}

NextProductive ==
    \E t \in Topics, a \in AllAttemptKinds :
        AttemptsRecorded < MaxAttempts /\ record_attempt(t, a.is_correct, a.error_type)

SpecProductive == Init /\ [][NextProductive]_vars

----------------------------------------------------------------------------
(* The tools on a learner document that already holds a run of errors *)

\* record_attempt applied to a topic state and its session history for every
\* attempt of h in turn
RECURSIVE Recorded(_, _)
Recorded(doc, h) ==
    IF h = <<>> THEN doc
    ELSE LET ts == AttemptTopicState(doc.ts, Head(h).is_correct, Head(h).error_type)
         IN  Recorded([ts |-> ts,
                       session_history |->
                           AttemptSummary(doc.session_history, Head(h).is_correct,
                                          ts.mastery_level)],
                      Tail(h))

\* the document after start_session(t) on a new learner
Started(t) ==
    [ts |-> [TopicState EXCEPT !.break_state = SessionBreakState(BreakState)],
     session_history |-> <<SessionSummary(1, t, now, <<0, 1>>)>>]

\* runs of TrendCap - 1 incorrect attempts: one category throughout, and the
\* three categories in turn
ErrorRuns ==
    {[i \in 1..(TrendCap - 1) |-> Attempt(FALSE, "computational")],
     [i \in 1..(TrendCap - 1) |->
        Attempt(FALSE, <<"computational", "structural", "conceptual">>[(i % 3) + 1])]}

\* the server finds the document of a learner who started a session on math
\* and answered wrongly TrendCap - 1 times
InitTrend ==
    /\ now = 0
    /\ \E h \in ErrorRuns :
        /\ topics = [t \in {"math"} |-> Recorded(Started("math"), h).ts]
        /\ session_history = Recorded(Started("math"), h).session_history
    /\ session_count = 1
    /\ topic_graphs = EmptyDict
    /\ response = NoResponse
    /\ suggested_at = EmptyDict
    /\ prev_suggested_at = EmptyDict
    /\ inflight = NoCalls
    /\ args = NoReturn
    /\ ret = NoReturn
    /\ pc = "server"

NextTrend ==
    \/ \E t \in Topics : session_count < MaxSessions /\ start_session(t)
    \/ \E t \in Topics, a \in AttemptKinds :
            /\ AttemptsRecorded < TrendCap - 1 + MaxAttempts
            /\ record_attempt(t, a.is_correct, a.error_type)
    \/ \E t \in Topics : BreaksRecorded < MaxBreaks /\ record_break(t)

SpecTrend == InitTrend /\ [][NextTrend]_vars

----------------------------------------------------------------------------
(* The tools on one topic *)

\* mastery_level arguments of update_topic_mastery: below, inside, at the end
\* of and above the interval the tool clamps to
MasteryOverrides == {<<-1, 2>>, <<1, 2>>, <<1, 1>>, <<3, 2>>}

\* the calls that make the learner document grow
CallsMade == session_count + AttemptsRecorded + BreaksRecorded

NextTopic ==
    \/ \E t \in Topics : CallsMade < MaxCalls /\ start_session(t)
    \/ \E t \in Topics, a \in AttemptInputs :
            CallsMade < MaxCalls /\ record_attempt(t, a[1], a[2])
    \/ \E t \in Topics : CallsMade < MaxCalls /\ record_break(t)
    \/ \E t \in Topics : get_assessment(t)
    \/ \E t \in Topics, m \in MasteryOverrides : update_topic_mastery(t, m)
    \/ \E l \in SeqsUpTo(Topics, 1) : add_topics(l)
    \/ end_session

SpecTopic == Init /\ [][NextTopic]_vars

----------------------------------------------------------------------------
(* Sessions, attempts and breaks on two topics *)

TwoTopics == {"math", "physics"}

NextSessions ==
    \/ \E t \in TwoTopics : CallsMade < MaxSessionCalls /\ start_session(t)
    \/ \E t \in TwoTopics, a \in AttemptInputs :
            CallsMade < MaxSessionCalls /\ record_attempt(t, a[1], a[2])
    \/ \E t \in TwoTopics : CallsMade < MaxSessionCalls /\ record_break(t)
    \/ now < MaxTime /\ Tick

SpecSessions == Init /\ [][NextSessions]_vars

----------------------------------------------------------------------------
(* Topics and their graphs from creation to deletion *)

\* prerequisites arguments of store_topic_graph
PrerequisiteInputs == {[k \in {"math"} |-> <<"arithmetic">>]}

\* the attempts the session summaries have counted, deleted topics included
AttemptsCounted ==
    SumSeq([i \in 1..Len(session_history) |-> session_history[i].attempts_count])

NextLifecycle ==
    \/ \E t \in TwoTopics :
            session_count + AttemptsCounted < MaxLifecycleCalls /\ start_session(t)
    \/ \E l \in SeqsUpTo(TwoTopics, 1) : add_topics(l)
    \/ \E t \in TwoTopics, a \in {<<FALSE, "conceptual">>} :
            /\ session_count + AttemptsCounted < MaxLifecycleCalls
            /\ AttemptsRecorded < MaxLifecycleCalls - 1
            /\ record_attempt(t, a[1], a[2])
    \/ \E t \in TwoTopics, p \in PrerequisiteInputs : store_topic_graph(t, p)
    \/ \E t \in TwoTopics : delete_topic(t)
    \/ \E t \in TwoTopics : app_delete_topic(t)

SpecLifecycle == Init /\ [][NextLifecycle]_vars

----------------------------------------------------------------------------
(* Misconceptions recorded, resolved and seen again *)

\* the observations the profile has counted
Observations ==
    SumOver([t \in DOMAIN topics |->
                SumSeq([i \in 1..Len(topics[t].misconceptions) |->
                            topics[t].misconceptions[i].times_observed])],
            DOMAIN topics)

NextMisconceptions ==
    \/ \E t \in Topics, d \in Descriptions :
            Observations < MaxObservations /\ record_misconception(t, d)
    \/ \E t \in TwoTopics, d \in Descriptions : resolve_misconception(t, d)
    \/ now < MaxTime /\ Tick

SpecMisconceptions == Init /\ [][NextMisconceptions]_vars

----------------------------------------------------------------------------
(* record_attempt and get_assessment on a learner document that already    *)
(* holds a run of correct attempts                                         *)

\* the server finds the document of a learner who started a session on math
\* and answered correctly MasteryWindow - 1 times
InitCeiling ==
    /\ now = 0
    /\ \E h \in {[i \in 1..(MasteryWindow - 1) |-> Attempt(TRUE, None)]} :
        /\ topics = [t \in {"math"} |-> Recorded(Started("math"), h).ts]
        /\ session_history = Recorded(Started("math"), h).session_history
    /\ session_count = 1
    /\ topic_graphs = EmptyDict
    /\ response = NoResponse
    /\ suggested_at = EmptyDict
    /\ prev_suggested_at = EmptyDict
    /\ inflight = NoCalls
    /\ args = NoReturn
    /\ ret = NoReturn
    /\ pc = "server"

NextCeiling ==
    \/ \E t \in Topics, a \in AttemptKinds :
            /\ AttemptsRecorded < MasteryWindow - 1 + MaxAttempts
            /\ record_attempt(t, a.is_correct, a.error_type)
    \/ \E t \in Topics : get_assessment(t)

SpecCeiling == InitCeiling /\ [][NextCeiling]_vars

----------------------------------------------------------------------------
(* Sessions, attempts, breaks and assessments on one topic, with time passing *)

NextWarmup ==
    \/ \E t \in Topics : CallsMade < MaxCalls /\ start_session(t)
    \/ \E t \in Topics, a \in AttemptInputs :
            CallsMade < MaxCalls /\ record_attempt(t, a[1], a[2])
    \/ \E t \in Topics : CallsMade < MaxCalls /\ record_break(t)
    \/ \E t \in Topics : get_assessment(t)
    \/ now < MaxTime /\ Tick

SpecWarmup == Init /\ [][NextWarmup]_vars

----------------------------------------------------------------------------
(* Sessions opened and closed while attempts and breaks arrive on two topics *)

NextSummaries ==
    \/ \E t \in TwoTopics : CallsMade < MaxSessionCalls /\ start_session(t)
    \/ \E t \in TwoTopics, a \in AttemptInputs :
            CallsMade < MaxSessionCalls /\ record_attempt(t, a[1], a[2])
    \/ \E t \in TwoTopics : CallsMade < MaxSessionCalls /\ record_break(t)
    \/ end_session

SpecSummaries == Init /\ [][NextSummaries]_vars

----------------------------------------------------------------------------
(* check_break_needed and compute_recommendation on persisted break states    *)
(* whose timestamps may be unparsable                                         *)

\* the break states of a learner document written by something other than the
\* tool server: each timestamp absent, parsable or unparsable
PersistedBreakStates ==
    {[BreakState EXCEPT !.last_break_suggestion = lbs,
                        !.session_start_time = sst,
                        !.last_break_taken = lbt,
                        !.consecutive_errors = ce,
                        !.post_break_warmup = warm,
                        !.error_severity_trend = trend] :
        lbs \in {NoTime, EngineNow - DefaultCooldownMinutes + 1,
                 EngineNow - DefaultCooldownMinutes, Unparsable},
        sst \in {NoTime, EngineNow - SessionLimitMinutes, EngineNow - 1, Unparsable},
        lbt \in {NoTime, EngineNow - SessionLimitMinutes, EngineNow - 1, Unparsable},
        ce \in {0, DecliningErrorLimit, ConsecutiveErrorLimit},
        warm \in BOOLEAN,
        trend \in {<<>>, <<1, 2, 3>>}}

InitParse ==
    /\ now = EngineNow
    /\ ServerIdle
    /\ pc = "input"
    /\ ret = NoReturn
    /\ args \in [fn : {"check_break_needed", "compute_recommendation"},
                 break_state : PersistedBreakStates,
                 trajectory : Trajectories]

CallCheckBreakPersisted ==
    /\ pc = "input"
    /\ args.fn = "check_break_needed"
    /\ ret' = check_break_needed(args.break_state, args.trajectory)
    /\ pc' = "done"
    /\ UNCHANGED <<args, serverVars, inflight>>

\* get_assessment's call for a topic without errors in its window and without
\* a topic graph
CallRecommendationPersisted ==
    /\ pc = "input"
    /\ args.fn = "compute_recommendation"
    /\ ret' = compute_recommendation(args.trajectory, None, <<0, 1>>, NoGraph, "math",
                                     args.break_state)
    /\ pc' = "done"
    /\ UNCHANGED <<args, serverVars, inflight>>

NextParse == CallCheckBreakPersisted \/ CallRecommendationPersisted

SpecParse == InitParse /\ [][NextParse]_vars

----------------------------------------------------------------------------
(* The four decision functions on every input, empty and absent ones included *)

\* the persisted break states whose timestamps are all parsable or absent
ParsableBreakStates ==
    {bs \in PersistedBreakStates :
        Unparsable \notin {bs.last_break_suggestion, bs.session_start_time,
                           bs.last_break_taken}}

RecommendationInputs ==
    [fn : {"compute_recommendation"},
     trajectory : Trajectories,
     dominant_error : DominantErrors,
     mastery : MasteryInputs \cup {<<0, 1>>},
     topic_graph : GraphInputs,
     topic : {"math"},
     break_state : {NoBreakState} \cup ParsableBreakStates]

ScoringInputs ==
    [fn : {"compute_trajectory", "compute_mastery", "_dominant_error_type"},
     attempts : Histories,
     window : Windows]

InitTotal ==
    /\ now = EngineNow
    /\ ServerIdle
    /\ pc = "input"
    /\ ret = NoReturn
    /\ args \in RecommendationInputs \cup ScoringInputs

CallTotal(fn, result) ==
    /\ pc = "input"
    /\ args.fn = fn
    /\ ret' = result
    /\ pc' = "done"
    /\ UNCHANGED <<args, serverVars, inflight>>

NextTotal ==
    \/ CallTotal("compute_recommendation",
                 compute_recommendation(args.trajectory, args.dominant_error, args.mastery,
                                        args.topic_graph, args.topic, args.break_state))
    \/ CallTotal("compute_trajectory", compute_trajectory(args.attempts, args.window))
    \/ CallTotal("compute_mastery",
                 compute_mastery([TopicState EXCEPT !.attempt_history = args.attempts],
                                 args.window))
    \/ CallTotal("_dominant_error_type", _dominant_error_type(args.attempts, args.window))

SpecTotal == InitTotal /\ [][NextTotal]_vars

----------------------------------------------------------------------------
(* load_learner and save_learner: calls of several processes on one learner   *)
(* document.  Every tool-server process and the web app read the learner's    *)
(* file, change their copy and write it back; no lock is taken, so the calls  *)
(* of different processes interleave between the read and the write.          *)

\* two tool-server processes and the web app
Procs == {"tutor1", "tutor2", "app"}

\* the learner's file as load_learner reads it
Persisted ==
    [topics |-> topics,
     topic_graphs |-> topic_graphs,
     session_count |-> session_count,
     session_history |-> session_history]

\* what record_attempt saves for a profile it loaded
AttemptDoc(doc, t, is_correct, error_type) ==
    LET loaded == IF t \in DOMAIN doc.topics THEN doc.topics[t] ELSE TopicState
        ts == AttemptTopicState(loaded, is_correct, error_type)
    IN  [doc EXCEPT !.topics = Put(@, t, ts),
                    !.session_history = AttemptSummary(@, is_correct, ts.mastery_level)]

\* what the web app's DELETE writes for the data it read; nothing is written
\* for an unknown topic
DeleteDoc(doc, t) ==
    IF t \in DOMAIN doc.topics
    THEN [doc EXCEPT !.topics = Without(@, t), !.topic_graphs = Without(@, t)]
    ELSE doc

\* process p reads the file; overlapped records that another process was
\* between its read and its write at some moment of this call
Load(p, call) ==
    /\ p \notin DOMAIN inflight
    /\ LET others == {q \in DOMAIN inflight : inflight[q].pos = "loaded"} IN
       inflight' =
         [q \in DOMAIN inflight \cup {p} |->
            IF q = p
            THEN [pos |-> "loaded", call |-> call, profile |-> Persisted,
                  overlapped |-> others # {}]
            ELSE IF q \in others THEN [inflight[q] EXCEPT !.overlapped = TRUE]
            ELSE inflight[q]]
    /\ UNCHANGED <<serverVars, engineVars>>

\* record_attempt up to load_learner
LoadAttempt(p, t, is_correct, error_type) ==
    Load(p, [op |-> "record_attempt", topic |-> t,
             is_correct |-> is_correct, error_type |-> error_type])

\* the web app's DELETE up to path.read_text
LoadDelete(p, t) == Load(p, [op |-> "delete_topic", topic |-> t])

\* process p writes the file and returns
Save(p, doc) ==
    /\ topics' = doc.topics
    /\ topic_graphs' = doc.topic_graphs
    /\ session_count' = doc.session_count
    /\ session_history' = doc.session_history
    /\ inflight' = [inflight EXCEPT ![p] = [pos |-> "done", call |-> @.call,
                                            overlapped |-> @.overlapped]]
    /\ UNCHANGED <<now, response, suggested_at, prev_suggested_at, engineVars>>

\* record_attempt from load_learner to save_learner
SaveAttempt(p) ==
    /\ p \in DOMAIN inflight
    /\ inflight[p].pos = "loaded"
    /\ inflight[p].call.op = "record_attempt"
    /\ Save(p, AttemptDoc(inflight[p].profile, inflight[p].call.topic,
                          inflight[p].call.is_correct, inflight[p].call.error_type))

\* the web app's DELETE from path.read_text to path.write_text, or to the 404
\* answer that writes nothing
SaveDelete(p) ==
    /\ p \in DOMAIN inflight
    /\ inflight[p].pos = "loaded"
    /\ inflight[p].call.op = "delete_topic"
    /\ IF inflight[p].call.topic \in DOMAIN inflight[p].profile.topics
       THEN Save(p, DeleteDoc(inflight[p].profile, inflight[p].call.topic))
       ELSE Save(p, Persisted)

\* the attempts the two tool-server processes record
ConcurrentAttempts == {Attempt(TRUE, None), Attempt(FALSE, "conceptual")}

\* the document of a learner who started a session on math and recorded up to
\* one attempt; args keeps the document the calls start from
InitConcurrent ==
    /\ now = 0
    /\ \E h \in SeqsUpTo(ConcurrentAttempts, 1) :
        /\ topics = [t \in {"math"} |-> Recorded(Started("math"), h).ts]
        /\ session_history = Recorded(Started("math"), h).session_history
    /\ session_count = 1
    /\ topic_graphs = EmptyDict
    /\ response = NoResponse
    /\ suggested_at = EmptyDict
    /\ prev_suggested_at = EmptyDict
    /\ inflight = NoCalls
    /\ args = Persisted
    /\ ret = NoReturn
    /\ pc = "server"

\* every process makes at most one call
NextConcurrent ==
    \/ \E p \in {"tutor1", "tutor2"}, t \in Topics, a \in ConcurrentAttempts :
            LoadAttempt(p, t, a.is_correct, a.error_type)
    \/ \E p \in {"tutor1", "tutor2"} : SaveAttempt(p)
    \/ \E t \in TwoTopics : LoadDelete("app", t)
    \/ SaveDelete("app")

SpecConcurrent == InitConcurrent /\ [][NextConcurrent]_vars

----------------------------------------------------------------------------
(* The Break Monitor's conditions as the specification words them *)

WithinCooldown(bs) ==
    /\ bs.last_break_suggestion # NoTime
    /\ now - bs.last_break_suggestion < bs.break_cooldown_minutes

Holds1(bs, trajectory) == trajectory = "declining" /\ bs.consecutive_errors >= 3

Holds2(bs) == bs.consecutive_errors >= 5

\* a break has occurred this session: one is recorded at or after the session
\* start
BreakThisSession(bs) ==
    /\ bs.last_break_taken # NoTime
    /\ bs.last_break_taken >= bs.session_start_time

\* effective elapsed minutes: the time since last_break_taken if a break has
\* occurred this session, else the time since session_start_time
EffectiveElapsed(bs) ==
    IF BreakThisSession(bs) THEN now - bs.last_break_taken
    ELSE now - bs.session_start_time

Holds3(bs) ==
    bs.session_start_time # NoTime /\ EffectiveElapsed(bs) >= 45

Holds4(bs) ==
    LET t == bs.error_severity_trend
        n == Len(t)
    IN  n >= 3 /\ t[n - 2] < t[n - 1] /\ t[n - 1] < t[n] /\ t[n] >= 2

\* C2: cooldown dominance.  While a stamped suggestion is younger than the
\* cooldown, check_break_needed answers needed = FALSE whatever the trajectory
\* and the other fields are; once the cooldown has elapsed, five consecutive
\* errors, an old session or an escalating trend trigger again.
C2_CooldownDominance ==
    pc = "done" =>
        LET bs == args.break_state IN
        /\ WithinCooldown(bs) => ret.needed = FALSE
        /\ (/\ bs.last_break_suggestion # NoTime
            /\ now - bs.last_break_suggestion >= bs.break_cooldown_minutes
            /\ Holds2(bs) \/ Holds3(bs) \/ Holds4(bs))
           => ret.needed = TRUE

\* a suppressed call: five errors, a declining trajectory, an old session and
\* an escalating trend, one minute before the cooldown ends
C2_Witness ==
    /\ pc = "done"
    /\ WithinCooldown(args.break_state)
    /\ now - args.break_state.last_break_suggestion
         = args.break_state.break_cooldown_minutes - 1
    /\ args.trajectory = "declining"
    /\ Holds2(args.break_state)
    /\ Holds3(args.break_state)
    /\ Holds4(args.break_state)
    /\ ret.needed = FALSE

\* C3: outside the cooldown the four triggers are tried in the order 1, 2, 3,
\* 4 and the first match is returned: needed iff some trigger holds, urgency
\* high iff trigger 1 or 2 holds, medium iff only 3 or 4 holds, and
\* needed = FALSE, urgency low, empty reason when none holds.
C3_TriggerOrder ==
    (pc = "done" /\ ~WithinCooldown(args.break_state)) =>
        LET bs == args.break_state
            t1 == Holds1(bs, args.trajectory)
            t2 == Holds2(bs)
            t3 == Holds3(bs)
            t4 == Holds4(bs)
        IN  /\ ret.needed <=> (t1 \/ t2 \/ t3 \/ t4)
            /\ ret.urgency = "high" <=> (t1 \/ t2)
            /\ ret.urgency = "medium" <=> (~t1 /\ ~t2 /\ (t3 \/ t4))
            /\ ~(t1 \/ t2 \/ t3 \/ t4)
                 => ret = [needed |-> FALSE, reason |-> <<>>, urgency |-> "low"]
            /\ t1 => ret.reason = <<"declining_consecutive_errors", bs.consecutive_errors>>
            /\ (~t1 /\ t2) => ret.reason = <<"consecutive_errors", bs.consecutive_errors>>
            /\ (~t1 /\ ~t2 /\ t3) => ret.reason[1] = "working_minutes"
            /\ (~t1 /\ ~t2 /\ ~t3 /\ t4) => ret.reason = <<"errors_more_fundamental">>

\* The break states on which the monitor's session trigger and trigger 3 agree:
\* the recorded break, if any, belongs to the running session.  On these the
\* order, the urgency and the reason of C3 hold; the break states left out are
\* those whose last_break_taken is older than the session start.
C3_TriggerOrderWithinSession ==
    (/\ args.break_state.last_break_taken # NoTime
     /\ args.break_state.session_start_time # NoTime
     /\ args.break_state.last_break_taken < args.break_state.session_start_time)
    \/ C3_TriggerOrder

----------------------------------------------------------------------------
(* The Recommendation Engine's rules as the specification words them *)

\* rule 1 matches: a break state is supplied and the Break Monitor signals needed
Rule1(a) ==
    /\ a.break_state # NoBreakState
    /\ check_break_needed(a.break_state, a.trajectory).needed

Rule2(a) ==
    ~Rule1(a) /\ a.break_state # NoBreakState /\ a.break_state.post_break_warmup

MasteryAtLeast85(a) == a.mastery[1] * 100 >= 85 * a.mastery[2]

Rule3(a) == a.dominant_error = None /\ MasteryAtLeast85(a)

\* the topic has a non-empty prerequisite list
PrereqsOf(a) ==
    IF a.topic_graph = NoGraph THEN <<>>
    ELSE IF a.topic \notin DOMAIN a.topic_graph.prerequisites THEN <<>>
    ELSE a.topic_graph.prerequisites[a.topic]

\* C4: rule 1 wins over every other rule.  With a break state supplied and the
\* monitor signalling needed, the result is take_break with the monitor's
\* reason as detail, its urgency and post_break_warmup = TRUE, whatever the
\* other inputs and the warm-up flag are; five consecutive errors outside the
\* cooldown give urgency high.
C4_BreakFirst ==
    pc = "done" =>
        /\ Rule1(args) =>
             ret = [action |-> "take_break",
                    detail |-> check_break_needed(args.break_state, args.trajectory).reason,
                    urgency |-> check_break_needed(args.break_state, args.trajectory).urgency,
                    post_break_warmup |-> TRUE]
        /\ (/\ args.break_state # NoBreakState
            /\ ~WithinCooldown(args.break_state)
            /\ args.break_state.consecutive_errors >= 5)
           => (ret.action = "take_break" /\ ret.urgency = "high")

\* a break is needed while the warm-up flag is set, mastery is high and no
\* error dominates
C4_Witness ==
    /\ pc = "done"
    /\ Rule1(args)
    /\ args.break_state.post_break_warmup
    /\ args.break_state.consecutive_errors >= 5
    /\ args.dominant_error = None
    /\ MasteryAtLeast85(args)
    /\ ret.action = "take_break"
    /\ ret.urgency = "high"

\* C5: rule 2.  With a break state whose post_break_warmup is TRUE and no break
\* needed, the result is warmup for every trajectory, dominant error, mastery
\* and topic graph.
C5_WarmupSecond ==
    (pc = "done" /\ Rule2(args)) => ret.action = "warmup"

\* warm-up wins over a declining trajectory with prerequisites and over high
\* mastery, with errors already counted since the break
C5_Witness ==
    /\ pc = "done"
    /\ Rule2(args)
    /\ args.trajectory = "declining"
    /\ args.break_state.consecutive_errors > 0
    /\ PrereqsOf(args) # <<>>
    /\ Rule3(args)
    /\ ret.action = "warmup"

\* C6: rule 4.  When rules 1-3 do not match and the trajectory is declining,
\* the result is go_back to the first prerequisite of the topic if it has one,
\* else take_break with urgency medium and post_break_warmup = TRUE, for every
\* dominant error.
C6_Declining ==
    (pc = "done" /\ ~Rule1(args) /\ ~Rule2(args) /\ ~Rule3(args)
        /\ args.trajectory = "declining") =>
        IF PrereqsOf(args) # <<>>
        THEN ret.action = "go_back" /\ ret.prerequisite_topic = PrereqsOf(args)[1]
        ELSE /\ ret.action = "take_break"
             /\ ret.urgency = "medium"
             /\ ret.post_break_warmup = TRUE

\* declining with two prerequisites: back to the first one
C6_Witness ==
    /\ pc = "done"
    /\ ~Rule1(args) /\ ~Rule2(args) /\ ~Rule3(args)
    /\ args.trajectory = "declining"
    /\ Len(PrereqsOf(args)) = 2
    /\ args.dominant_error = "computational"
    /\ ret.action = "go_back"
    /\ ret.prerequisite_topic = "arithmetic"

\* C7: rule 3 precedes rule 4.  With rules 1 and 2 not matching, no dominant
\* error and mastery >= 0.85 give keep_grinding for every trajectory; with
\* mastery < 0.85 and no dominant error the result is keep_grinding exactly
\* when the trajectory is not declining.
C7_AdvanceBeforeDeclining ==
    (pc = "done" /\ ~Rule1(args) /\ ~Rule2(args) /\ args.dominant_error = None) =>
        IF MasteryAtLeast85(args)
        THEN ret.action = "keep_grinding"
        ELSE ret.action = "keep_grinding" <=> args.trajectory # "declining"

\* mastery exactly 0.85, declining, prerequisites at hand: keep_grinding
C7_Witness ==
    /\ pc = "done"
    /\ ~Rule1(args) /\ ~Rule2(args)
    /\ args.dominant_error = None
    /\ args.mastery = <<85, 100>>
    /\ args.trajectory = "declining"
    /\ PrereqsOf(args) # <<>>
    /\ ret.action = "keep_grinding"

\* C8: rule 5.  When rules 1-4 do not match and the dominant error is
\* conceptual, the result is targeted_instruction if improving; otherwise
\* go_back to the first prerequisite if the topic has one, else
\* targeted_instruction.
C8_Conceptual ==
    (pc = "done" /\ ~Rule1(args) /\ ~Rule2(args) /\ ~Rule3(args)
        /\ args.trajectory # "declining" /\ args.dominant_error = "conceptual") =>
        IF args.trajectory = "improving" THEN ret.action = "targeted_instruction"
        ELSE IF PrereqsOf(args) # <<>>
        THEN ret.action = "go_back" /\ ret.prerequisite_topic = PrereqsOf(args)[1]
        ELSE ret.action = "targeted_instruction"

\* conceptual and improving with prerequisites at hand: instruction, no go_back
C8_Witness ==
    /\ pc = "done"
    /\ ~Rule1(args) /\ ~Rule2(args) /\ ~Rule3(args)
    /\ args.trajectory = "improving"
    /\ args.dominant_error = "conceptual"
    /\ PrereqsOf(args) # <<>>
    /\ ret.action = "targeted_instruction"

\* C9: rules 6-8.  When rules 1-5 do not match, structural gives keep_grinding
\* if improving else targeted_instruction, computational gives keep_grinding
\* if improving else brief_tip, anything else gives keep_grinding; the result
\* never depends on the topic graph.
C9_StructuralComputationalDefault ==
    (pc = "done" /\ ~Rule1(args) /\ ~Rule2(args) /\ ~Rule3(args)
        /\ args.trajectory # "declining" /\ args.dominant_error # "conceptual") =>
        /\ ret.action =
             CASE args.dominant_error = "structural" ->
                    IF args.trajectory = "improving" THEN "keep_grinding"
                    ELSE "targeted_instruction"
               [] args.dominant_error = "computational" ->
                    IF args.trajectory = "improving" THEN "keep_grinding"
                    ELSE "brief_tip"
               [] OTHER -> "keep_grinding"
        /\ ret = compute_recommendation(args.trajectory, args.dominant_error,
                                        args.mastery, NoGraph, args.topic,
                                        args.break_state)

\* computational and improving, prerequisites at hand: keep_grinding
C9_Witness ==
    /\ pc = "done"
    /\ ~Rule1(args) /\ ~Rule2(args) /\ ~Rule3(args)
    /\ args.trajectory = "improving"
    /\ args.dominant_error = "computational"
    /\ PrereqsOf(args) # <<>>
    /\ ret.action = "keep_grinding"

\* C10: every record has an action and a non-empty detail and only the fields
\* of its branch: urgency and post_break_warmup iff take_break (the flag then
\* TRUE), prerequisite_topic iff go_back (then the topic's first prerequisite).
C10_RecordShape ==
    pc = "done" =>
        /\ {"action", "detail"} \subseteq DOMAIN ret
        /\ DOMAIN ret \subseteq
             {"action", "detail", "urgency", "post_break_warmup", "prerequisite_topic"}
        /\ ret.detail # <<>>
        /\ "urgency" \in DOMAIN ret <=> ret.action = "take_break"
        /\ "post_break_warmup" \in DOMAIN ret <=> ret.action = "take_break"
        /\ ret.action = "take_break" => ret.post_break_warmup = TRUE
        /\ "prerequisite_topic" \in DOMAIN ret <=> ret.action = "go_back"
        /\ ret.action = "go_back" =>
             (PrereqsOf(args) # <<>> /\ ret.prerequisite_topic = PrereqsOf(args)[1])

\* the fallback break of a declining trajectory without prerequisites
C10_Witness ==
    /\ pc = "done"
    /\ ~Rule1(args)
    /\ args.trajectory = "declining"
    /\ PrereqsOf(args) = <<>>
    /\ ret.action = "take_break"
    /\ DOMAIN ret = {"action", "detail", "urgency", "post_break_warmup"}

----------------------------------------------------------------------------
(* The tool server *)

\* C1: two consecutive break suggestions for a topic (get_assessment answers
\* whose recommendation is take_break) are at least break_cooldown_minutes
\* apart.
C1_SuggestionsSpaced ==
    \A t \in DOMAIN prev_suggested_at :
        t \in DOMAIN topics =>
            suggested_at[t] - prev_suggested_at[t]
                >= topics[t].break_state.break_cooldown_minutes

----------------------------------------------------------------------------
(* The scoring functions as the specification words them *)

\* the most recent `window` entries of a history
InWindow(attempts, window) ==
    SubSeq(attempts, Len(attempts) - Min(window, Len(attempts)) + 1, Len(attempts))

\* the severity of the Error Taxonomy: an incorrect attempt whose category is
\* absent or unrecognized counts as structural
SeverityAsSpecified(a) ==
    IF a.is_correct THEN 0
    ELSE CASE a.error_type = "computational" -> 1
           [] a.error_type = "structural" -> 2
           [] a.error_type = "conceptual" -> 3
           [] OTHER -> 2

\* the unweighted mean severity of a non-empty run of attempts
MeanSeverity(s) == <<SumSeq([i \in 1..Len(s) |-> SeverityAsSpecified(s[i])]), Len(s)>>

FirstHalf(recent) == SubSeq(recent, 1, Len(recent) \div 2)

SecondHalf(recent) == SubSeq(recent, (Len(recent) \div 2) + 1, Len(recent))

\* the label of the Trajectory Analyzer
TrajectoryAsSpecified(attempts, window) ==
    LET recent == InWindow(attempts, window)
        m1 == MeanSeverity(FirstHalf(recent))
        m2 == MeanSeverity(SecondHalf(recent))
        delta == <<m1[1] * m2[2] - m2[1] * m1[2], m1[2] * m2[2]>>
    IN  IF Len(attempts) < 3 \/ Len(recent) < 3 THEN "unknown"
        ELSE IF RatLT(<<3, 10>>, delta) THEN "improving"
        ELSE IF RatLT(delta, <<-3, 10>>) THEN "declining"
        ELSE "flat"

\* an incorrect attempt without a category lies among the attempts
HasAbsentCategory(s) ==
    \E i \in 1..Len(s) : ~s[i].is_correct /\ s[i].error_type = None

\* C11: compute_trajectory returns unknown whenever the history has fewer than
\* 3 attempts or fewer than 3 attempts lie inside the window, for every attempt
\* content and every window value (windows 0, 1 and 2 included); with at least
\* 3 attempts in the window it never returns unknown.
C11_UnknownIffFewAttempts ==
    pc = "done" =>
        (ret = "unknown" <=>
            (\/ Len(args.attempts) < 3
             \/ Len(InWindow(args.attempts, args.window)) < 3))

\* On every window of at least one attempt C11 holds; the inputs left out are
\* those with window 0.
C11_UnknownIffFewAttemptsPositiveWindow ==
    args.window = 0 \/ C11_UnknownIffFewAttempts

\* C12: with at least 3 attempts in the window, compute_trajectory looks only
\* at the last `window` attempts, splits them at floor(count/2) so that the
\* second half gets the extra element, takes the unweighted mean severity of
\* each half and answers improving iff mean(first) - mean(second) > 0.3,
\* declining iff it is < -0.3 and flat otherwise; attempts older than the
\* window never change the result.
C12_HalvesAndThresholds ==
    (pc = "done" /\ Len(InWindow(args.attempts, args.window)) >= 3) =>
        /\ ret = TrajectoryAsSpecified(args.attempts, args.window)
        /\ ret = compute_trajectory(InWindow(args.attempts, args.window), args.window)
        /\ Len(SecondHalf(InWindow(args.attempts, args.window)))
             >= Len(FirstHalf(InWindow(args.attempts, args.window)))

\* On the windows in which every incorrect attempt carries a category C12
\* holds.
C12_HalvesAndThresholdsWithCategory ==
    HasAbsentCategory(InWindow(args.attempts, args.window)) \/ C12_HalvesAndThresholds

\* every attempt of the first half is strictly more severe than every attempt
\* of the second half
SeverityDecreases(recent) ==
    \A i \in 1..Len(FirstHalf(recent)), j \in 1..Len(SecondHalf(recent)) :
        SeverityAsSpecified(FirstHalf(recent)[i]) > SeverityAsSpecified(SecondHalf(recent)[j])

SeverityIncreases(recent) ==
    \A i \in 1..Len(FirstHalf(recent)), j \in 1..Len(SecondHalf(recent)) :
        SeverityAsSpecified(FirstHalf(recent)[i]) < SeverityAsSpecified(SecondHalf(recent)[j])

\* C13: for every window of at least 3 attempts, if severity decreases across
\* the halves compute_trajectory never returns declining, and if severity
\* increases across the halves it never returns improving.
C13_MonotoneWindows ==
    (pc = "done" /\ Len(InWindow(args.attempts, args.window)) >= 3) =>
        LET recent == InWindow(args.attempts, args.window) IN
            /\ SeverityDecreases(recent) => ret # "declining"
            /\ SeverityIncreases(recent) => ret # "improving"

\* On the windows in which every incorrect attempt carries a category C13
\* holds.
C13_MonotoneWindowsWithCategory ==
    HasAbsentCategory(InWindow(args.attempts, args.window)) \/ C13_MonotoneWindows

\* C14: an incorrect attempt whose category is absent or unrecognized is given
\* severity 2 wherever severity is computed: in the half means behind the
\* trajectory record_attempt stores, and in the value record_attempt appends to
\* error_severity_trend (the entry of the latest attempt, when that attempt is
\* incorrect); hence every entry of the severity trend is 1, 2 or 3.
C14_DefaultSeverity ==
    \A t \in DOMAIN topics :
        LET h == topics[t].attempt_history
            trend == topics[t].break_state.error_severity_trend
        IN  /\ \A i \in 1..Len(trend) : trend[i] \in {1, 2, 3}
            /\ (h # <<>> /\ ~h[Len(h)].is_correct /\ trend # <<>>)
                 => trend[Len(trend)] = SeverityAsSpecified(h[Len(h)])
            /\ topics[t].trajectory = TrajectoryAsSpecified(h, TrajectoryWindow)

\* While every incorrect attempt of the topic carries a category, unrecognized
\* ones included, C14 holds.
C14_DefaultSeverityWithCategory ==
    (\E t \in DOMAIN topics : HasAbsentCategory(topics[t].attempt_history))
    \/ C14_DefaultSeverity

----------------------------------------------------------------------------
(* The Mastery Scorer as the specification words it *)

WithHistory(h) == [TopicState EXCEPT !.attempt_history = h]

AllCorrect(h) == \A i \in 1..Len(h) : h[i].is_correct

\* C15: compute_mastery returns exactly 0 for an empty history and for a
\* history of any length whose attempts are all incorrect with category
\* conceptual; for every non-empty history the result is >= 0 and < 1.
C15_MasteryRange ==
    pc = "done" =>
        LET h == args.topic_state.attempt_history IN
            /\ h = <<>> => ret[1] = 0
            /\ (\A i \in 1..Len(h) : h[i] = Attempt(FALSE, "conceptual")) => ret[1] = 0
            /\ h # <<>> => (RatGE(ret, <<0, 1>>) /\ RatLT(ret, <<1, 1>>))

\* a history of several conceptual errors scored 0, the window reaching them all
C15_Witness ==
    /\ pc = "done"
    /\ Len(args.topic_state.attempt_history) >= 2
    /\ args.window >= 2
    /\ \A i \in 1..Len(args.topic_state.attempt_history) :
            args.topic_state.attempt_history[i] = Attempt(FALSE, "conceptual")
    /\ ret[1] = 0

\* accuracy in quarters: 1.0 correct, 0.5 computational, 0.25 structural,
\* 0.0 conceptual, 0.25 for an absent or unrecognized category
AccuracyAsSpecified(a) ==
    IF a.is_correct THEN 4
    ELSE CASE a.error_type = "computational" -> 2
           [] a.error_type = "structural" -> 1
           [] a.error_type = "conceptual" -> 0
           [] OTHER -> 1

\* raw x confidence over the last n = min(len, window) attempts: raw is the mean
\* of accuracy weighted by (i+1)/n, confidence is n/(n+5)
MasteryAsSpecified(h, window) ==
    LET recent == InWindow(h, window)
        n == Len(recent)
        weighted == SumSeq([i \in 1..n |-> AccuracyAsSpecified(recent[i]) * i])
        weights == SumSeq([i \in 1..n |-> i])
    IN  IF n = 0 THEN <<0, 1>>
        ELSE <<weighted * n, 4 * weights * (n + 5)>>

\* the history with the attempts at positions i and i+1 exchanged
MoveLater(h, i) == [h EXCEPT ![i] = h[i + 1], ![i + 1] = h[i]]

\* C16: for a non-empty history compute_mastery equals raw x confidence over
\* the last n = min(len, window) attempts, oldest first, with recency weight
\* (i+1)/n, accuracy 1.0 / 0.5 / 0.25 / 0.0 and 0.25 for an absent or
\* unrecognized category, and confidence n/(n+5); so moving a correct answer
\* one place later, all else equal, never lowers mastery.
C16_MasteryFormula ==
    (pc = "done" /\ args.topic_state.attempt_history # <<>>) =>
        LET h == args.topic_state.attempt_history IN
            /\ RatEQ(ret, MasteryAsSpecified(h, args.window))
            /\ \A i \in 1..(Len(h) - 1) :
                    h[i].is_correct =>
                        RatGE(compute_mastery(WithHistory(MoveLater(h, i)), args.window), ret)

\* For every window of at least one attempt C16 holds; the inputs left out are
\* those with window 0.
C16_MasteryFormulaPositiveWindow ==
    args.window = 0 \/ C16_MasteryFormula

\* C17: with the window held fixed, appending a correct attempt as the most
\* recent entry of any history (shorter than, equal to or longer than the
\* window) never decreases compute_mastery.
C17_AppendCorrect ==
    pc = "done" =>
        RatGE(compute_mastery(WithHistory(Append(args.topic_state.attempt_history,
                                                 Attempt(TRUE, None))),
                              args.window),
              ret)

\* a history longer than its window whose mastery the appended correct attempt
\* raises
C17_Witness ==
    /\ pc = "done"
    /\ args.window >= 2
    /\ Len(args.topic_state.attempt_history) > args.window
    /\ RatLT(ret,
             compute_mastery(WithHistory(Append(args.topic_state.attempt_history,
                                                Attempt(TRUE, None))),
                             args.window))

\* C18: confidence monotonicity.  Of two all-correct histories of lengths
\* n1 < n2 <= window the longer one has the strictly greater mastery.
C18_ConfidenceMonotone ==
    (/\ pc = "done"
     /\ AllCorrect(args.topic_state.attempt_history)
     /\ Len(args.topic_state.attempt_history) <= args.window) =>
        \A n1 \in 0..(Len(args.topic_state.attempt_history) - 1) :
            RatLT(compute_mastery(
                      WithHistory(SubSeq(args.topic_state.attempt_history, 1, n1)),
                      args.window),
                  ret)

\* three correct attempts inside the window score above two
C18_Witness ==
    /\ pc = "done"
    /\ AllCorrect(args.topic_state.attempt_history)
    /\ Len(args.topic_state.attempt_history) = 3
    /\ args.window >= 3
    /\ RatEQ(ret, <<3, 8>>)
    /\ RatEQ(compute_mastery(WithHistory(SubSeq(args.topic_state.attempt_history, 1, 2)),
                             args.window),
             <<2, 7>>)

\* C19: window cap.  For a history longer than `window`, compute_mastery
\* returns the value it returns for the history made of only its last `window`
\* attempts.
C19_WindowCap ==
    (pc = "done" /\ Len(args.topic_state.attempt_history) > args.window) =>
        RatEQ(ret,
              compute_mastery(
                  WithHistory(InWindow(args.topic_state.attempt_history, args.window)),
                  args.window))

\* For every window of at least one attempt C19 holds; the inputs left out are
\* those with window 0.
C19_WindowCapPositiveWindow ==
    args.window = 0 \/ C19_WindowCap

----------------------------------------------------------------------------
(* The Dominant-Error Classifier as the specification words it *)

Categories == {"computational", "structural", "conceptual"}

\* the category an incorrect attempt is tallied under
CategoryAsSpecified(a) ==
    IF a.error_type \in Categories THEN a.error_type ELSE "structural"

Tally(recent, c) ==
    Cardinality({i \in 1..Len(recent) :
                    ~recent[i].is_correct /\ CategoryAsSpecified(recent[i]) = c})

\* C20: dominant_error_type returns the no-error sentinel for an empty history
\* and whenever the last `window` attempts contain no incorrect attempt;
\* otherwise every incorrect attempt with an absent or unrecognized category is
\* counted as structural, so the result is one of computational, structural,
\* conceptual, and one with the highest count.
C20_DominantCategory ==
    pc = "done" =>
        LET recent == InWindow(args.attempts, args.window) IN
            IF \A i \in 1..Len(recent) : recent[i].is_correct
            THEN ret = None
            ELSE /\ ret \in Categories
                 /\ \A c \in Categories : Tally(recent, ret) >= Tally(recent, c)

\* For every window of at least one attempt and every history whose incorrect
\* attempts carry a category of the taxonomy or none, C20 holds.
C20_DominantCategoryInTaxonomy ==
    \/ args.window = 0
    \/ \E i \in 1..Len(args.attempts) :
            args.attempts[i].error_type \notin Categories \cup {None}
    \/ C20_DominantCategory

----------------------------------------------------------------------------
(* The tool server's bookkeeping as the specification words it *)

\* the attempt the latest record_attempt call recorded
LatestAttempt ==
    topics[response.topic].attempt_history[Len(topics[response.topic].attempt_history)]

\* C21: detect_productive_failure(attempt) is true iff the attempt is
\* incorrect and its category is computational; it is false for every correct
\* attempt, whatever its category, and for every incorrect attempt of another
\* or of no category.
C21_ProductiveFailure ==
    response.op = "record_attempt" =>
        /\ response.productive_failure
             <=> (~LatestAttempt.is_correct /\ LatestAttempt.error_type = "computational")
        /\ LatestAttempt.is_correct => ~response.productive_failure
        /\ LatestAttempt.error_type # "computational" => ~response.productive_failure

\* an incorrect computational attempt after a correct computational one: the
\* first is no productive failure, the second is
C21_Witness ==
    /\ response.op = "record_attempt"
    /\ Len(topics[response.topic].attempt_history) = 2
    /\ topics[response.topic].attempt_history[1] = Attempt(TRUE, "computational")
    /\ LatestAttempt = Attempt(FALSE, "computational")
    /\ response.productive_failure
    /\ topics[response.topic].productive_failures = 1

\* the attempt history of topic t grew by an incorrect attempt in this step
IncorrectRecorded(t) ==
    /\ t \in DOMAIN topics
    /\ Len(topics'[t].attempt_history) = Len(topics[t].attempt_history) + 1
    /\ ~topics'[t].attempt_history[Len(topics'[t].attempt_history)].is_correct

\* C22: after any sequence of start_session, record_attempt and record_break,
\* error_severity_trend has at most 10 entries; an incorrect attempt recorded
\* while it holds 10 entries evicts the oldest one, the other nine keep their
\* order and the new severity follows them (the severity of the category, for
\* an attempt that carries one).
C22_TrendCapped ==
    /\ [](\A t \in DOMAIN topics :
            Len(topics[t].break_state.error_severity_trend) <= 10)
    /\ [][\A t \in DOMAIN topics' :
            (IncorrectRecorded(t) /\ Len(topics[t].break_state.error_severity_trend) = 10)
                => LET trend == topics[t].break_state.error_severity_trend
                       after == topics'[t].break_state.error_severity_trend
                       a == topics'[t].attempt_history[Len(topics'[t].attempt_history)]
                   IN  /\ after = Append(Tail(trend), after[Len(after)])
                       /\ a.error_type # None
                            => after[Len(after)] = SeverityAsSpecified(a)]_vars

\* eleven errors in a row: the trend holds ten scores, the first one evicted
C22_Witness ==
    \E t \in DOMAIN topics :
        /\ topics[t].break_state.consecutive_errors = 11
        /\ Len(topics[t].break_state.error_severity_trend) = 10
        /\ topics[t].break_state.error_severity_trend
             = <<3, 1, 2, 3, 1, 2, 3, 1, 2, 3>>

\* the state of topic t before a step; a topic the step creates starts from
\* the defaults
Before(t) == IF t \in DOMAIN topics THEN topics[t] ELSE TopicState

\* the latest entry of the attempt history of topic t after a step
Appended(t) == topics'[t].attempt_history[Len(topics'[t].attempt_history)]

\* the step recorded an attempt for topic t
AttemptStep(t) ==
    Len(topics'[t].attempt_history) = Len(Before(t).attempt_history) + 1

\* the step recorded a break for topic t
BreakStep(t) ==
    topics'[t].break_state.breaks_taken = Before(t).break_state.breaks_taken + 1

\* the step started a session on topic t
SessionStep(t) ==
    /\ session_count' = session_count + 1
    /\ session_history'[Len(session_history')].topic = t

\* the number of incorrect attempts at the end of a history
RECURSIVE TrailingIncorrect(_)
TrailingIncorrect(h) ==
    IF h = <<>> \/ h[Len(h)].is_correct THEN 0
    ELSE 1 + TrailingIncorrect(SubSeq(h, 1, Len(h) - 1))

\* C23: consecutive_errors is set to 0 by every record_attempt marked correct,
\* by every record_break and by start_session, is increased by exactly 1 by
\* every record_attempt marked incorrect and is changed by no other operation;
\* so it counts incorrect attempts recorded since the latest correct attempt,
\* break or session start, and never exceeds the run of incorrect attempts at
\* the end of the history.
C23_ConsecutiveErrors ==
    /\ [](\A t \in DOMAIN topics :
            /\ topics[t].break_state.consecutive_errors >= 0
            /\ topics[t].break_state.consecutive_errors
                 <= TrailingIncorrect(topics[t].attempt_history))
    /\ [][\A t \in DOMAIN topics' :
            topics'[t].break_state.consecutive_errors =
                IF AttemptStep(t)
                THEN IF Appended(t).is_correct THEN 0
                     ELSE Before(t).break_state.consecutive_errors + 1
                ELSE IF BreakStep(t) \/ SessionStep(t) THEN 0
                ELSE Before(t).break_state.consecutive_errors]_vars

\* two errors in a row wiped by a break
C23_Witness ==
    \E t \in DOMAIN topics :
        /\ TrailingIncorrect(topics[t].attempt_history) = 2
        /\ topics[t].break_state.breaks_taken = 1
        /\ topics[t].break_state.consecutive_errors = 0
        /\ response.op = "record_break"

\* C24: post_break_warmup becomes true when record_break is called, stays as
\* it is across incorrect record_attempt calls, get_assessment calls and every
\* other operation, and becomes false at the next record_attempt marked
\* correct or the next start_session, not before.
C24_WarmupFlag ==
    [][\A t \in DOMAIN topics' :
            topics'[t].break_state.post_break_warmup =
                IF BreakStep(t) THEN TRUE
                ELSE IF (AttemptStep(t) /\ Appended(t).is_correct) \/ SessionStep(t)
                THEN FALSE
                ELSE Before(t).break_state.post_break_warmup]_vars

\* the flag still set after an incorrect attempt that followed the break, and
\* seen by get_assessment
C24_Witness ==
    /\ response.op = "get_assessment"
    /\ "recommendation" \in DOMAIN response
    /\ topics[response.topic].break_state.breaks_taken = 1
    /\ topics[response.topic].break_state.consecutive_errors = 1
    /\ topics[response.topic].break_state.post_break_warmup

\* mastery and trajectory of a topic state are those of its attempt history
Derived(ts) ==
    /\ RatEQ(ts.mastery_level, compute_mastery(ts, 10))
    /\ ts.trajectory = compute_trajectory(ts.attempt_history, 5)

\* the step is an update_topic_mastery call for topic t
OverrideStep(t) ==
    response'.op = "update_topic_mastery" /\ response'.topic = t

\* C25: after every record_attempt, and in every state of a topic on which
\* update_topic_mastery was not called since, the stored mastery_level equals
\* compute_mastery over the topic's attempt history and the stored trajectory
\* equals compute_trajectory over it; get_assessment answers with these stored
\* values.
C25_DerivedFields ==
    /\ [](/\ response.op = "get_assessment"
          /\ "recommendation" \in DOMAIN response
          => /\ response.mastery_level = topics[response.topic].mastery_level
             /\ response.trajectory = topics[response.topic].trajectory)
    /\ [][\A t \in DOMAIN topics' :
            /\ AttemptStep(t) => Derived(topics'[t])
            /\ (Derived(Before(t)) /\ ~OverrideStep(t)) => Derived(topics'[t])]_vars

\* three attempts whose stored trajectory and mastery are those of the history
C25_Witness ==
    /\ response.op = "record_attempt"
    /\ Len(topics[response.topic].attempt_history) = 3
    /\ topics[response.topic].trajectory = "improving"
    /\ topics[response.topic].mastery_level # <<0, 1>>
    /\ Derived(topics[response.topic])

\* C26: in every reachable TopicState the stored mastery score is at least 0
\* and strictly below 1, after any sequence of operations, update_topic_mastery
\* with any value included.
C26_MasteryBelowOne ==
    \A t \in DOMAIN topics :
        /\ RatGE(topics[t].mastery_level, <<0, 1>>)
        /\ RatLT(topics[t].mastery_level, <<1, 1>>)

\* While update_topic_mastery is not called, C26 holds: the stored mastery is
\* compute_mastery of the history or the default 0.
C26_MasteryBelowOneWithoutOverride ==
    (\E t \in DOMAIN topics : ~Derived(topics[t])) \/ C26_MasteryBelowOne

IsPrefix(s, t) == Len(s) <= Len(t) /\ SubSeq(t, 1, Len(s)) = s

\* C27: attempts are append-only.  No operation removes a topic here, and
\* after each operation the topic's attempt history has the history before it
\* as a prefix; record_attempt appends exactly one attempt to its topic and no
\* other operation changes any history.
C27_AppendOnly ==
    [][/\ DOMAIN topics \subseteq DOMAIN topics'
       /\ \A t \in DOMAIN topics' :
            /\ IsPrefix(Before(t).attempt_history, topics'[t].attempt_history)
            /\ IF response'.op = "record_attempt" /\ response'.topic = t
               THEN /\ AttemptStep(t)
                    /\ response'.total_attempts = Len(topics'[t].attempt_history)
               ELSE topics'[t].attempt_history = Before(t).attempt_history]_vars

\* a third attempt appended behind two different ones
C27_Witness ==
    /\ response.op = "record_attempt"
    /\ topics[response.topic].attempt_history
         = <<Attempt(FALSE, "conceptual"), Attempt(TRUE, None),
             Attempt(FALSE, "computational")>>

\* C28: start_session for a topic sets session_start_time to now and
\* consecutive_errors to 0, clears post_break_warmup and empties
\* error_severity_trend, and leaves last_break_taken, breaks_taken,
\* last_break_suggestion, break_cooldown_minutes, the attempt history, the
\* mastery and the trajectory of that topic, and the whole state of every other
\* topic, unchanged.
C28_SessionFrame ==
    [][\A t \in DOMAIN topics' :
            IF SessionStep(t)
            THEN /\ topics'[t].break_state.session_start_time = now
                 /\ topics'[t].break_state.consecutive_errors = 0
                 /\ topics'[t].break_state.post_break_warmup = FALSE
                 /\ topics'[t].break_state.error_severity_trend = <<>>
                 /\ topics'[t].break_state.last_break_taken
                      = Before(t).break_state.last_break_taken
                 /\ topics'[t].break_state.breaks_taken
                      = Before(t).break_state.breaks_taken
                 /\ topics'[t].break_state.last_break_suggestion
                      = Before(t).break_state.last_break_suggestion
                 /\ topics'[t].break_state.break_cooldown_minutes
                      = Before(t).break_state.break_cooldown_minutes
                 /\ topics'[t].attempt_history = Before(t).attempt_history
                 /\ topics'[t].mastery_level = Before(t).mastery_level
                 /\ topics'[t].trajectory = Before(t).trajectory
            ELSE session_count' = session_count + 1
                    => (t \in DOMAIN topics /\ topics'[t] = topics[t])]_vars

\* a second session on math, started later than the break of the first one,
\* while physics holds an attempt
C28_Witness ==
    /\ response.op = "start_session"
    /\ response.topic = "math"
    /\ "physics" \in DOMAIN topics
    /\ topics["physics"].attempt_history # <<>>
    /\ topics["math"].break_state.session_start_time = now
    /\ topics["math"].break_state.last_break_taken # NoTime
    /\ topics["math"].break_state.last_break_taken < now
    /\ topics["math"].break_state.breaks_taken = 1
    /\ ~topics["math"].break_state.post_break_warmup

\* C29: get_assessment, and with it compute_recommendation and
\* check_break_needed which it evaluates on the topic's stored state, is
\* read-only: the call leaves every field of the break state, the topic graphs
\* and the rest of the persisted learner document unchanged.
C29_ReadOnly ==
    [][response'.op = "get_assessment"
        => UNCHANGED <<topics, topic_graphs, session_count, session_history>>]_vars

\* a take_break answer that left no trace on the break state
C29_Witness ==
    /\ response.op = "get_assessment"
    /\ "recommendation" \in DOMAIN response
    /\ response.recommendation.action = "take_break"
    /\ response.recommendation.urgency = "high"
    /\ topics[response.topic].break_state.last_break_suggestion = NoTime

----------------------------------------------------------------------------
(* The session-length trigger *)

\* C30: the effective elapsed time compared with 45 minutes is the time since
\* last_break_taken only if a break was recorded during the current session
\* (at or after session_start_time), and otherwise the time since
\* session_start_time; with no cooldown and no other trigger holding,
\* check_break_needed answers needed exactly when that time is 45 minutes or
\* more, whatever last_break_taken remains from an earlier session.
C30_SessionLength ==
    (/\ pc = "done"
     /\ ~WithinCooldown(args.break_state)
     /\ ~Holds1(args.break_state, args.trajectory)
     /\ ~Holds2(args.break_state)
     /\ ~Holds4(args.break_state)) =>
        /\ ret.needed <=> Holds3(args.break_state)
        /\ ret.needed =>
             /\ ret.urgency = "medium"
             /\ ret.reason = <<"working_minutes", EffectiveElapsed(args.break_state)>>

\* On the break states whose recorded break, if any, belongs to the running
\* session C30 holds; the break states left out are those whose
\* last_break_taken is older than the session start.
C30_SessionLengthWithinSession ==
    (/\ args.break_state.last_break_taken # NoTime
     /\ args.break_state.session_start_time # NoTime
     /\ args.break_state.last_break_taken < args.break_state.session_start_time)
    \/ C30_SessionLength

----------------------------------------------------------------------------
(* The severity-escalation trigger *)

\* C31: outside the cooldown and with triggers 1 to 3 not matching,
\* check_break_needed answers needed with urgency medium exactly when the
\* severity trend has at least 3 entries, its last 3 entries are strictly
\* increasing and the last one is 2 or more; a shorter trend, a non-increasing
\* last three or a last entry below 2 gives needed = FALSE, urgency low.
C31_Escalation ==
    (/\ pc = "done"
     /\ ~WithinCooldown(args.break_state)
     /\ ~Holds1(args.break_state, args.trajectory)
     /\ ~Holds2(args.break_state)
     /\ ~Holds3(args.break_state)) =>
        LET t == args.break_state.error_severity_trend
            n == Len(t)
            escalating == n >= 3 /\ t[n - 2] < t[n - 1] /\ t[n - 1] < t[n] /\ t[n] >= 2
        IN  /\ (ret.needed /\ ret.urgency = "medium") <=> escalating
            /\ escalating => ret.reason = <<"errors_more_fundamental">>
            /\ ~escalating => ret = [needed |-> FALSE, reason |-> <<>>, urgency |-> "low"]

\* On the break states whose recorded break, if any, belongs to the running
\* session C31 holds; the break states left out are those whose
\* last_break_taken is older than the session start, where trigger 3 of the
\* code matches although the session trigger of the monitor does not.
C31_EscalationWithinSession ==
    (/\ args.break_state.last_break_taken # NoTime
     /\ args.break_state.session_start_time # NoTime
     /\ args.break_state.last_break_taken < args.break_state.session_start_time)
    \/ C31_Escalation

----------------------------------------------------------------------------
(* The Dominant-Error Classifier's tie-break *)

\* how many of the first i incorrect attempts of errs are tallied under c
CountUpTo(errs, c, i) ==
    Cardinality({j \in 1..i : CategoryAsSpecified(errs[j]) = c})

\* the highest count among the categories
MaxCount(errs) ==
    CHOOSE m \in 0..Len(errs) :
        /\ \E c \in Categories : CountUpTo(errs, c, Len(errs)) = m
        /\ \A c \in Categories : CountUpTo(errs, c, Len(errs)) <= m

\* the position in the chronological scan at which c reaches the highest count
FirstReach(errs, c) ==
    CHOOSE i \in 1..Len(errs) :
        /\ CountUpTo(errs, c, i) = MaxCount(errs)
        /\ \A j \in 1..(i - 1) : CountUpTo(errs, c, j) < MaxCount(errs)

\* the categories that share the highest count
Leaders(errs) ==
    {c \in Categories : CountUpTo(errs, c, Len(errs)) = MaxCount(errs)}

\* C32: dominant_error_type returns a category with the highest count among
\* the incorrect attempts of the last `window` attempts, and when several
\* categories tie for the highest count it returns the one that reaches that
\* count first in the chronological scan (for errors A, B, B, A it is B).
C32_TieBreak ==
    pc = "done" =>
        LET errs == SelectErrors(InWindow(args.attempts, args.window)) IN
            errs # <<>> =>
                /\ ret \in Leaders(errs)
                /\ \A c \in Leaders(errs) : FirstReach(errs, ret) <= FirstReach(errs, c)

\* With a window of at least one attempt, categories of the taxonomy or none,
\* and a single category holding the highest count, C32 holds.
C32_TieBreakUntied ==
    \/ args.window = 0
    \/ \E i \in 1..Len(args.attempts) :
            args.attempts[i].error_type \notin Categories \cup {None}
    \/ Cardinality(Leaders(SelectErrors(InWindow(args.attempts, args.window)))) > 1
    \/ C32_TieBreak

----------------------------------------------------------------------------
(* Temporal parse failures *)

\* some persisted timestamp of the break state is present but unparsable
HasUnparsable(bs) ==
    \/ bs.last_break_suggestion = Unparsable
    \/ bs.session_start_time = Unparsable
    \/ bs.last_break_taken = Unparsable

\* C33: if last_break_suggestion, session_start_time or last_break_taken is
\* present but unparsable, check_break_needed, and compute_recommendation
\* through it, fails the evaluation with an error instead of returning a
\* result, whatever the other fields are, five or more consecutive errors and a
\* declining trajectory included.
C33_ParseFailureFatal ==
    (pc = "done" /\ HasUnparsable(args.break_state)) => ret = ValueError

\* The evaluation fails for every unparsable last_break_suggestion, and for an
\* unparsable session_start_time, or an unparsable last_break_taken of a started
\* session, once no cooldown applies and triggers 1 and 2 do not match; it never
\* fails on a break state whose timestamps are all parsable or absent.
C33_ParseFailureWhereRead ==
    pc = "done" =>
        LET bs == args.break_state IN
        /\ bs.last_break_suggestion = Unparsable => ret = ValueError
        /\ (/\ bs.last_break_suggestion # Unparsable
            /\ ~WithinCooldown(bs)
            /\ ~Holds1(bs, args.trajectory)
            /\ ~Holds2(bs)
            /\ \/ bs.session_start_time = Unparsable
               \/ bs.session_start_time # NoTime /\ bs.last_break_taken = Unparsable)
             => ret = ValueError
        /\ ~HasUnparsable(bs) => ret # ValueError

----------------------------------------------------------------------------
(* Totality of the decision functions *)

Actions ==
    {"take_break", "warmup", "keep_grinding", "go_back", "targeted_instruction", "brief_tip"}

\* C34: the decision functions are total on no-signal inputs.  For every
\* trajectory, dominant error, mastery, graph shape and break state (absent, or
\* present with parsable or absent timestamps) compute_recommendation returns a
\* record, never an error, whose action is one of the six; compute_trajectory,
\* compute_mastery and dominant_error_type return a value of their range for
\* every history, and unknown, 0.0 and the no-error sentinel for the empty one.
C34_Total ==
    pc = "done" =>
        /\ args.fn = "compute_recommendation" =>
             /\ ret # ValueError
             /\ {"action", "detail"} \subseteq DOMAIN ret
             /\ ret.action \in Actions
        /\ args.fn = "compute_trajectory" =>
             /\ ret \in Trajectories
             /\ args.attempts = <<>> => ret = "unknown"
        /\ args.fn = "compute_mastery" =>
             /\ ret[2] > 0 /\ ret[1] >= 0 /\ RatLT(ret, <<1, 1>>)
             /\ args.attempts = <<>> => RatEQ(ret, <<0, 1>>)
        /\ args.fn = "_dominant_error_type" =>
             /\ ret \in DominantErrors
             /\ args.attempts = <<>> => ret = None

\* compute_recommendation has answered with no signal at all: unknown
\* trajectory, no errors, zero mastery, no graph, no break state
C34_Witness ==
    /\ pc = "done"
    /\ args.fn = "compute_recommendation"
    /\ args.trajectory = "unknown"
    /\ args.dominant_error = None
    /\ RatEQ(args.mastery, <<0, 1>>)
    /\ args.topic_graph = NoGraph
    /\ args.break_state = NoBreakState
    /\ ret.action = "keep_grinding"

----------------------------------------------------------------------------
(* Concurrent mutations of one learner document *)

\* what a completed call does to a document when it runs alone
Effect(call, doc) ==
    IF call.op = "record_attempt"
    THEN AttemptDoc(doc, call.topic, call.is_correct, call.error_type)
    ELSE DeleteDoc(doc, call.topic)

\* the documents the calls of the processes in S leave when they run one after
\* the other on doc, in any order
RECURSIVE SerialOutcomes(_, _)
SerialOutcomes(S, doc) ==
    IF S = {} THEN {doc}
    ELSE UNION {SerialOutcomes(S \ {p}, Effect(inflight[p].call, doc)) : p \in S}

\* no call is between its load and its save
Quiet == \A p \in DOMAIN inflight : inflight[p].pos = "done"

\* C35: every mutation is an atomic load/overwrite-save.  Once the concurrent
\* calls on a learner have returned, the saved document is the one they leave
\* when run one after the other in some order: two record_attempt calls both
\* appear in the history, and a topic the web app deleted does not come back
\* with the attempts it had before the deletion.
C35_AtomicLoadSave ==
    Quiet => Persisted \in SerialOutcomes(DOMAIN inflight, args)

\* When no call read the file while another call was between its read and its
\* write, the saved document is a serial outcome.
C35_AtomicLoadSaveWithoutOverlap ==
    (\E p \in DOMAIN inflight : inflight[p].overlapped) \/ C35_AtomicLoadSave

----------------------------------------------------------------------------
(* The lifecycle of a TopicState *)

Deletions == {"delete_topic", "DELETE"}

\* C36: a TopicState exists from the topic's first reference (session start,
\* explicit add, first attempt) until the topic is deleted, and no other
\* operation destroys it; delete_topic, as a tool and as the web app's DELETE,
\* removes the TopicState and the TopicGraph entry of its topic and leaves
\* every other topic, every other graph, the session count and the session
\* history unchanged; on an unknown topic it reports an error and leaves the
\* document unchanged.
C36_TopicLifecycle ==
    [][/\ \A t \in DOMAIN topics \ DOMAIN topics' :
            response'.op \in Deletions /\ response'.topic = t /\ response'.deleted
       /\ response'.op \in {"start_session", "record_attempt"} =>
            response'.topic \in DOMAIN topics'
       /\ response'.op = "add_topics" =>
            \A i \in 1..Len(response'.added) : response'.added[i] \in DOMAIN topics'
       /\ response'.op \in Deletions =>
            LET t == response'.topic IN
            IF t \in DOMAIN topics
            THEN /\ response'.deleted
                 /\ topics' = [x \in DOMAIN topics \ {t} |-> topics[x]]
                 /\ topic_graphs' = [x \in DOMAIN topic_graphs \ {t} |-> topic_graphs[x]]
                 /\ UNCHANGED <<session_count, session_history>>
            ELSE /\ ~response'.deleted
                 /\ "error" \in DOMAIN response'
                 /\ UNCHANGED <<topics, topic_graphs, session_count, session_history>>
      ]_vars

\* the tool server has deleted math, which had a graph, while physics and its
\* graph are still there
C36_Witness ==
    /\ response.op = "delete_topic"
    /\ response.deleted
    /\ response.topic = "math"
    /\ DOMAIN topics = {"physics"}
    /\ DOMAIN topic_graphs = {"physics"}
    /\ session_history # <<>>

----------------------------------------------------------------------------
(* Misconceptions *)

\* the misconceptions of ms whose description is d up to case
Matching(ms, d) == {i \in 1..Len(ms) : Lower(ms[i].description) = Lower(d)}

\* the misconceptions of topic t before the step (none for a new topic)
KnownBefore(t) == IF t \in DOMAIN topics THEN topics[t].misconceptions ELSE <<>>

\* C37: record_misconception on a description that matches an existing
\* misconception of the topic up to case adds no second record, raises its
\* times_observed by exactly 1 and makes it unresolved; resolve_misconception
\* sets resolved and never changes times_observed; so a resolved misconception
\* that is recorded again is unresolved again.
C37_Reopen ==
    [][/\ (now' = now /\ response'.op = "record_misconception") =>
            LET t == response'.topic
                before == KnownBefore(t)
                after == topics'[t].misconceptions
                hit == Matching(before, response'.description)
            IN  IF hit # {}
                THEN /\ Len(after) = Len(before)
                     /\ ~response'.new
                     /\ \E i \in hit :
                          /\ after[i].times_observed = before[i].times_observed + 1
                          /\ after[i].resolved = FALSE
                          /\ after[i].description = before[i].description
                          /\ response'.times_observed = after[i].times_observed
                          /\ \A j \in 1..Len(before) : j # i => after[j] = before[j]
                ELSE /\ response'.new
                     /\ Len(after) = Len(before) + 1
                     /\ after[Len(after)].times_observed = 1
                     /\ after[Len(after)].resolved = FALSE
                     /\ \A j \in 1..Len(before) : after[j] = before[j]
       /\ (now' = now /\ response'.op = "resolve_misconception") =>
            LET t == response'.topic
                before == KnownBefore(t)
            IN  IF response'.resolved
                THEN LET after == topics'[t].misconceptions
                         hit == Matching(before, response'.description)
                     IN  /\ Len(after) = Len(before)
                         /\ \E i \in hit :
                              /\ after[i].resolved = TRUE
                              /\ after[i].times_observed = before[i].times_observed
                              /\ after[i].description = before[i].description
                              /\ \A j \in 1..Len(before) : j # i => after[j] = before[j]
                ELSE UNCHANGED topics
      ]_vars

\* a misconception recorded under one spelling has been observed a second time
\* at a later moment and is open
C37_Witness ==
    /\ response.op = "record_misconception"
    /\ ~response.new
    /\ "math" \in DOMAIN topics
    /\ Len(topics["math"].misconceptions) = 1
    /\ topics["math"].misconceptions[1] =
         [description |-> "Sign Error", times_observed |-> 2, resolved |-> FALSE,
          last_seen |-> TickMinutes]

----------------------------------------------------------------------------
(* The ceiling of a computed mastery *)

\* window / (window + 5) for the window of 10 attempts record_attempt uses
MasteryCeiling == <<MasteryWindow, MasteryWindow + ConfidenceSmoothing>>

\* C38: in every state reached through record_attempt alone, the stored
\* mastery_level is at most 10/15, so it stays below 0.85 and get_assessment
\* never answers from the rule "no dominant error and mastery >= 0.85".
C38_MasteryCeiling ==
    /\ \A t \in DOMAIN topics :
         /\ RatGE(MasteryCeiling, topics[t].mastery_level)
         /\ RatLT(topics[t].mastery_level, <<AdvanceMasteryPercent, 100>>)
    /\ (response.op = "get_assessment" /\ "recommendation" \in DOMAIN response) =>
         /\ ~AdvanceApplies(response.dominant_error_type, response.mastery_level)
         /\ response.recommendation.detail # <<"mastery_strong_increase_difficulty">>

\* eleven correct attempts and none wrong: the mastery is exactly 10/15 and
\* get_assessment answers with the default rule
C38_Witness ==
    /\ response.op = "get_assessment"
    /\ Len(topics["math"].attempt_history) = MasteryWindow + 1
    /\ AllCorrect(topics["math"].attempt_history)
    /\ RatEQ(topics["math"].mastery_level, MasteryCeiling)
    /\ response.dominant_error_type = None
    /\ response.recommendation.detail = <<"continue_leveled_questions">>

----------------------------------------------------------------------------
(* Assessments after a break *)

\* get_assessment has just answered with a recommendation
Assessed == response.op = "get_assessment" /\ "recommendation" \in DOMAIN response

\* the step is the first get_assessment after a recorded break of the same
\* topic, with no other call in between
AssessedAfterBreak ==
    /\ response.op = "record_break"
    /\ "recorded" \in DOMAIN response
    /\ response'.op = "get_assessment"
    /\ response'.topic = response.topic

----------------------------------------------------------------------------
(* What a session summary counts *)

\* the step records an attempt (a correct one when correct is TRUE) on topic t
AttemptRecordedOn(t, correct) ==
    /\ response'.op = "record_attempt"
    /\ response'.topic = t
    /\ correct => topics'[t].attempt_history[Len(topics'[t].attempt_history)].is_correct

\* the step records a break on topic t
BreakRecordedOn(t) ==
    /\ response'.op = "record_break"
    /\ response'.topic = t
    /\ "recorded" \in DOMAIN response'

Increment(counted) == IF counted THEN 1 ELSE 0

\* summary i is the session in progress: the last one started and not ended
InProgress(i) ==
    /\ i = Len(session_history)
    /\ session_history[i].end_time = NoTime

\* correct_count <= attempts_count in every summary
CorrectWithinAttempts ==
    \A i \in 1..Len(session_history) :
        session_history[i].correct_count <= session_history[i].attempts_count

\* a summary is created with its three counts at zero and is never removed
SummariesStartEmpty ==
    /\ Len(session_history') >= Len(session_history)
    /\ \A i \in (Len(session_history) + 1)..Len(session_history') :
        /\ session_history'[i].attempts_count = 0
        /\ session_history'[i].correct_count = 0
        /\ session_history'[i].breaks_taken = 0

\* C40: each summary counts only its own session: its attempts_count,
\* correct_count and breaks_taken grow by one exactly on an attempt, a correct
\* attempt and a break recorded for the summary's topic between its
\* start_session and its end_session (or the next start_session), start at
\* zero, and correct_count <= attempts_count always holds.
C40_SummaryCountsOwnSession ==
    /\ []CorrectWithinAttempts
    /\ [][/\ SummariesStartEmpty
          /\ \A i \in 1..Len(session_history) :
                LET before == session_history[i]
                    after == session_history'[i]
                IN  /\ after.attempts_count = before.attempts_count
                        + Increment(InProgress(i) /\ AttemptRecordedOn(before.topic, FALSE))
                    /\ after.correct_count = before.correct_count
                        + Increment(InProgress(i) /\ AttemptRecordedOn(before.topic, TRUE))
                    /\ after.breaks_taken = before.breaks_taken
                        + Increment(InProgress(i) /\ BreakRecordedOn(before.topic))]_vars

\* What the code keeps: the last summary of the profile counts every attempt
\* and every break recorded after it was started, on whatever topic and whether
\* or not the session was ended; earlier summaries never change; and
\* correct_count <= attempts_count.
C40_SummaryCountsLastSession ==
    /\ []CorrectWithinAttempts
    /\ [][/\ SummariesStartEmpty
          /\ \A i \in 1..Len(session_history) :
                LET before == session_history[i]
                    after == session_history'[i]
                    last == i = Len(session_history)
                IN  /\ after.attempts_count = before.attempts_count
                        + Increment(last /\ \E t \in TwoTopics : AttemptRecordedOn(t, FALSE))
                    /\ after.correct_count = before.correct_count
                        + Increment(last /\ \E t \in TwoTopics : AttemptRecordedOn(t, TRUE))
                    /\ after.breaks_taken = before.breaks_taken
                        + Increment(last /\ \E t \in TwoTopics : BreakRecordedOn(t))]_vars

====
